---- MODULE Spec2Model ----
(***************************************************************************)
(* GoProxLB: the balancing decision engine (threshold and advanced         *)
(* balancer), the rule engine and the leader-gated control loop.           *)
(*                                                                         *)
(* Units.  Time is counted in ticks of 30 minutes; the zero time.Time is   *)
(* tick 0 and the clock starts well after it.  Utilisation (float32        *)
(* percentages) is counted in tenths of a percent.  Scores of the advanced *)
(* balancer (float64) are fixed-point numbers in 1/10000, scores of the    *)
(* threshold balancer are the exact numerators of weighted/totalWeight.    *)
(* A float64 that is NaN is a score record with nan = TRUE.                *)
(***************************************************************************)
EXTENDS Integers, Sequences, FiniteSets, TLC

VARIABLES
    now,              \* wall clock (time.Now), in ticks
    config,           \* *config.Config, fixed after start-up
    cluster,          \* the platform: what client.GetNodes() lists, in order
    histData,         \* the platform: GetNodeHistoricalData per host (error or CPU samples)
    locked,           \* the platform: VM ids whose migrate call is rejected
    apiFails,         \* the platform: host listings that have failed so far
    engine,           \* balancer.engine (*rules.Engine)
    lastRun,          \* balancer.lastRun
    migrationHistory, \* AdvancedBalancer.migrationHistory
    capacityMetrics,  \* AdvancedBalancer.capacityMetrics
    loadProfiles,     \* AdvancedBalancer.loadProfiles (priority and criticality per VM id)
    pc,               \* where the running cycle is: "idle", "exec"
    cycle,            \* the running (or last) cycle: force flag, start time, outcome, host listing, scores, plan, results
    calls,            \* client.MigrateVM calls issued by the running (or last) cycle, in order
    cycles,           \* number of cycles started
    raft,             \* hashicorp raft: this node's state and the leader address it knows
    lastLeader,       \* monitorLeaderChanges' local lastLeader
    leaderChan,       \* RaftNode.leaderChan (buffered, capacity 1)
    isLeader,         \* DistributedApp.isLeader
    loops,            \* number of balancing-loop goroutines started
    stopped,          \* DistributedApp.ctx cancelled
    requested,        \* balancing loops whose tick saw d.isLeader and that are entering runBalancingCycle
    reported          \* the line the control loop printed last for a cycle that returned an error

vars == <<now, config, cluster, histData, locked, apiFails, engine, lastRun, migrationHistory,
          capacityMetrics, loadProfiles, pc, cycle, calls, cycles, raft, lastLeader, leaderChan,
          isLeader, loops, stopped, requested, reported>>

balancerVars == <<engine, lastRun, migrationHistory, capacityMetrics, loadProfiles, pc, cycle, calls, cycles>>
platformVars == <<cluster, histData, locked, apiFails>>
leaderVars == <<raft, lastLeader, leaderChan, isLeader, loops, stopped>>
raftVars == <<leaderVars, requested>>
appVars == <<raftVars, reported>>

----------------------------------------------------------------------------
(* Bounds of the model *)

MaxCycles == 2        \* cycles per behaviour
NumPlainVMs == 6      \* untagged running VMs on host "a" in the crowded cluster
MaxLoops == 2         \* balancing-loop goroutines per instance
MaxApiFailures == 1   \* failing host listings per behaviour
MaxSamples == 3       \* length of the enumerated series of historical samples

(* Program constants, in model units *)

OneHour == 2          \* time.Hour, in ticks
MaxMigrations == 5    \* per-cycle cap of findOptimalMigrations
ChanCap == 1          \* make(chan bool, 1)

HalfHour == OneHour \div 2
OneDay == 24 * OneHour
ZeroTime == 0
StartTime == 3 * OneDay

----------------------------------------------------------------------------
(* Small helpers *)

EmptyMap == [x \in {} |-> {}]

MapPut(f, k, v) == [x \in (DOMAIN f) \cup {k} |-> IF x = k THEN v ELSE f[x]]

Range(s) == {s[i] : i \in DOMAIN s}

RECURSIVE SeqFilterBy(_, _)
\* the elements of s whose index satisfies keep, in order
SeqFilterBy(s, keep) ==
    IF s = << >> THEN << >>
    ELSE LET n == Len(s)
             front == SeqFilterBy(SubSeq(s, 1, n - 1), [i \in 1..(n - 1) |-> keep[i]])
         IN IF keep[n] THEN Append(front, s[n]) ELSE front

RECURSIVE Flatten(_)
Flatten(ss) == IF ss = << >> THEN << >> ELSE Head(ss) \o Flatten(Tail(ss))

----------------------------------------------------------------------------
(* VM tags.  A tag string is an optional leading blank, a prefix and the   *)
(* rest; strings.TrimSpace drops the blank, strings.HasPrefix looks at the *)
(* first characters of the string as it is.                                *)

PAffinity == "plb_affinity_"
PAntiAffinity == "plb_anti_affinity_"
PPin == "plb_pin_"
PIgnore == "plb_ignore_"

Tag(prefix, rest) == [pad |-> FALSE, prefix |-> prefix, rest |-> rest]
PaddedTag(prefix, rest) == [pad |-> TRUE, prefix |-> prefix, rest |-> rest]

TrimSpace(tag) == [tag EXCEPT !.pad = FALSE]
HasPrefix(tag, p) == ~tag.pad /\ tag.prefix = p
TrimPrefix(tag, p) == IF HasPrefix(tag, p) THEN tag.rest ELSE tag

----------------------------------------------------------------------------
(* internal/rules: the rule engine *)

NewEngine ==
    [affinityGroups |-> EmptyMap, antiAffinityGroups |-> EmptyMap,
     pinnedVMs |-> EmptyMap, ignoredVMs |-> EmptyMap]

addNodeToGroup(nodeName, nodes) ==
    IF nodeName \in Range(nodes) THEN nodes ELSE Append(nodes, nodeName)

addVMToGroup(groups, vm, groupName) ==
    LET g == IF groupName \in DOMAIN groups THEN groups[groupName]
             ELSE [Tag |-> groupName, VMs |-> << >>, Nodes |-> << >>]
    IN MapPut(groups, groupName,
              [Tag |-> groupName, VMs |-> Append(g.VMs, vm),
               Nodes |-> addNodeToGroup(vm.node, g.Nodes)])

addAffinityRule(e, vm, tag) ==
    [e EXCEPT !.affinityGroups = addVMToGroup(@, vm, TrimPrefix(tag, PAffinity))]

addAntiAffinityRule(e, vm, tag) ==
    [e EXCEPT !.antiAffinityGroups = addVMToGroup(@, vm, TrimPrefix(tag, PAntiAffinity))]

addPinningRule(e, vm, tag) ==
    LET nodeName == TrimPrefix(tag, PPin)
        p == IF vm.id \in DOMAIN e.pinnedVMs THEN e.pinnedVMs[vm.id]
             ELSE [VM |-> vm, Nodes |-> << >>]
    IN [e EXCEPT !.pinnedVMs =
            MapPut(@, vm.id, [VM |-> p.VM, Nodes |-> addNodeToGroup(nodeName, p.Nodes)])]

addIgnoreRule(e, vm, tag) ==
    LET ig == IF vm.id \in DOMAIN e.ignoredVMs THEN e.ignoredVMs[vm.id]
              ELSE [VM |-> vm, Tags |-> << >>]
    IN [e EXCEPT !.ignoredVMs =
            MapPut(@, vm.id, [VM |-> ig.VM, Tags |-> Append(ig.Tags, TrimPrefix(tag, PIgnore))])]

RECURSIVE processTags(_, _, _)
processTags(e, vm, tags) ==
    IF tags = << >> THEN e
    ELSE LET tag == TrimSpace(Head(tags))
             e1 == CASE HasPrefix(tag, PAffinity) -> addAffinityRule(e, vm, tag)
                     [] HasPrefix(tag, PAntiAffinity) -> addAntiAffinityRule(e, vm, tag)
                     [] HasPrefix(tag, PPin) -> addPinningRule(e, vm, tag)
                     [] HasPrefix(tag, PIgnore) -> addIgnoreRule(e, vm, tag)
                     [] OTHER -> e
         IN processTags(e1, vm, Tail(tags))

processVM(e, vm) == processTags(e, vm, vm.tags)

RECURSIVE processAll(_, _)
processAll(e, vms) ==
    IF vms = << >> THEN e ELSE processAll(processVM(e, Head(vms)), Tail(vms))

\* the ingestion that keeps what the engine held
ProcessVMs_Accumulate(e, vms) == processAll(e, vms)

\* ProcessVMs drops what the engine held and ingests vms
ProcessVMs(e, vms) == processAll(NewEngine, vms)

IsIgnored(e, vmID) == vmID \in DOMAIN e.ignoredVMs
IsPinned(e, vmID) == vmID \in DOMAIN e.pinnedVMs
GetPinnedNodes(e, vmID) == IF vmID \in DOMAIN e.pinnedVMs THEN e.pinnedVMs[vmID].Nodes ELSE << >>

validateIgnoreRules(e, vm) == ~IsIgnored(e, vm.id)

validatePinningRules(e, vm, targetNode) ==
    IsPinned(e, vm.id) => targetNode \in Range(GetPinnedNodes(e, vm.id))

findVMInGroup(vmID, group) == \E i \in DOMAIN group.VMs : group.VMs[i].id = vmID

checkAffinityConstraints(vm, targetNode, group) ==
    LET hasAffinityVM == \E j \in DOMAIN group.VMs :
            group.VMs[j].id # vm.id /\ group.VMs[j].node = targetNode
    IN hasAffinityVM
       \/ ~(\E k \in DOMAIN group.VMs :
                group.VMs[k].id # vm.id /\ group.VMs[k].node # targetNode)

checkAntiAffinityConstraints(vm, targetNode, group) ==
    ~(\E j \in DOMAIN group.VMs :
            group.VMs[j].id # vm.id /\ group.VMs[j].node = targetNode)

\* `for _, group := range map`: Go visits the groups in an order of its own
\* choosing; ord is that order (a sequence of group names), and the first
\* group that holds the VM decides.
RECURSIVE firstGroupOf(_, _, _)
firstGroupOf(groups, vmID, ord) ==
    IF ord = << >> THEN "none"
    ELSE IF Head(ord) \in DOMAIN groups /\ findVMInGroup(vmID, groups[Head(ord)])
         THEN Head(ord)
         ELSE firstGroupOf(groups, vmID, Tail(ord))

validateAffinityRules(e, vm, targetNode, ord) ==
    LET g == firstGroupOf(e.affinityGroups, vm.id, ord)
    IN g # "none" => checkAffinityConstraints(vm, targetNode, e.affinityGroups[g])

validateAntiAffinityRules(e, vm, targetNode, ord) ==
    LET g == firstGroupOf(e.antiAffinityGroups, vm.id, ord)
    IN g # "none" => checkAntiAffinityConstraints(vm, targetNode, e.antiAffinityGroups[g])

\* TRUE is a nil error
ValidatePlacement(e, vm, targetNode, ord) ==
    /\ validateIgnoreRules(e, vm)
    /\ validatePinningRules(e, vm, targetNode)
    /\ validateAffinityRules(e, vm, targetNode, ord)
    /\ validateAntiAffinityRules(e, vm, targetNode, ord)

GetValidTargetNodes(e, vm, availableNodes, ord) ==
    SeqFilterBy(availableNodes,
                [i \in DOMAIN availableNodes |-> ValidatePlacement(e, vm, availableNodes[i], ord)])

----------------------------------------------------------------------------
(* internal/config *)

\* thresholds are whole percentages, weights are float64 counted in 1/1000
DefaultThresholds == [cpu |-> 80, mem |-> 85, sto |-> 90]
DefaultWeights == [cpu |-> 1000, mem |-> 1000, sto |-> 500]
ZeroWeights == [cpu |-> 0, mem |-> 0, sto |-> 0]

\* every preset with the cooldown period of "high"
GetAggressivenessConfig_ShortCooldown(c) ==
    CASE c.aggressiveness = "low" ->
            [CooldownPeriod |-> HalfHour, MinImprovement |-> 150000, CapacityWeight |-> 2]
      [] c.aggressiveness = "high" ->
            [CooldownPeriod |-> HalfHour, MinImprovement |-> 50000, CapacityWeight |-> 8]
      [] OTHER ->
            [CooldownPeriod |-> HalfHour, MinImprovement |-> 100000, CapacityWeight |-> 5]

\* CooldownPeriod in ticks, MinImprovement in 1/10000, CapacityWeight in tenths
GetAggressivenessConfig(c) ==
    CASE c.aggressiveness = "low" ->
            [CooldownPeriod |-> 4 * OneHour, MinImprovement |-> 150000, CapacityWeight |-> 2]
      [] c.aggressiveness = "high" ->
            [CooldownPeriod |-> HalfHour, MinImprovement |-> 50000, CapacityWeight |-> 8]
      [] OTHER ->
            [CooldownPeriod |-> 2 * OneHour, MinImprovement |-> 100000, CapacityWeight |-> 5]

IsAdvancedBalancer(c) == c.balancerType = "advanced"

\* the check that finds no host in maintenance
isInMaintenance_Never(c, nodeName) == FALSE

isInMaintenance(c, nodeName) == nodeName \in Range(c.maintenance)

----------------------------------------------------------------------------
(* float64 scores *)

Num(v) == [nan |-> FALSE, v |-> v]
NaN == [nan |-> TRUE, v |-> 0]

\* a < b on float64: false as soon as one side is NaN
Less(a, b) == ~a.nan /\ ~b.nan /\ a.v < b.v
Minus(a, b) == IF a.nan \/ b.nan THEN NaN ELSE Num(a.v - b.v)

RECURSIVE bubbleLeft(_, _)
\* insertion sort's inner loop: x moves left while it is less than its left neighbour
bubbleLeft(s, x) ==
    IF s = << >> THEN <<x>>
    ELSE LET n == Len(s)
         IN IF Less(x.Score, s[n].Score)
            THEN Append(bubbleLeft(SubSeq(s, 1, n - 1), x), s[n])
            ELSE Append(s, x)

RECURSIVE sortByScore(_)
\* sort.Slice(scores, less) on a slice of at most 12 elements: insertion sort
sortByScore(s) ==
    IF s = << >> THEN << >>
    ELSE LET n == Len(s) IN bubbleLeft(sortByScore(SubSeq(s, 1, n - 1)), s[n])

----------------------------------------------------------------------------
(* AdvancedBalancer: capacity metrics *)

RECURSIVE insertAsc(_, _)
insertAsc(s, x) ==
    IF s = << >> THEN <<x>>
    ELSE LET n == Len(s)
         IN IF x < s[n] THEN Append(insertAsc(SubSeq(s, 1, n - 1), x), s[n]) ELSE Append(s, x)

RECURSIVE sortAsc(_)
sortAsc(s) ==
    IF s = << >> THEN << >>
    ELSE LET n == Len(s) IN insertAsc(sortAsc(SubSeq(s, 1, n - 1)), s[n])

RECURSIVE SumSeq(_)
SumSeq(s) == IF s = << >> THEN 0 ELSE Head(s) + SumSeq(Tail(s))

\* int(nMinus1*p), without the rounding
pctIndex_Truncated(n, p) ==
    LET idx == ((n - 1) * p) \div 100
    IN IF idx >= n THEN n - 1 ELSE idx

\* int(nMinus1*p + 0.5), p given in hundredths, then the bounds check
pctIndex(n, p) ==
    LET idx == ((n - 1) * p + 50) \div 100
    IN IF idx >= n THEN n - 1 ELSE idx

ZeroMetrics == [P50 |-> 0, P90 |-> 0, P95 |-> 0, P99 |-> 0, MinP90 |-> 0, MaxP90 |-> 0, Mean |-> 0]

\* values in tenths of a percent; indices are 0-based in the code
calculatePercentiles(values) ==
    IF values = << >> THEN ZeroMetrics
    ELSE LET sorted == sortAsc(values)
             n == Len(values)
         IN [P50 |-> sorted[pctIndex(n, 50) + 1],
             P90 |-> sorted[pctIndex(n, 90) + 1],
             P95 |-> sorted[pctIndex(n, 95) + 1],
             P99 |-> sorted[pctIndex(n, 99) + 1],
             MinP90 |-> sorted[pctIndex(n, 10) + 1],
             MaxP90 |-> sorted[pctIndex(n, 90) + 1],
             Mean |-> SumSeq(values) \div n]

\* the fallback that stores the metrics of an empty series
updateCapacityMetricsSimplified_Empty(node) == calculatePercentiles(<< >>)

updateCapacityMetricsSimplified(node) == calculatePercentiles(<<node.cpu>>)

RECURSIVE updateCapacityMetrics(_, _, _)
\* one entry per available node: from the historical samples, or from the
\* current CPU usage when the fetch fails
updateCapacityMetrics(cm, nodes, hist) ==
    IF nodes = << >> THEN cm
    ELSE LET node == Head(nodes)
             m == IF hist[node.name].err THEN updateCapacityMetricsSimplified(node)
                  ELSE calculatePercentiles(hist[node.name].samples)
         IN updateCapacityMetrics(MapPut(cm, node.name, m), Tail(nodes), hist)

----------------------------------------------------------------------------
(* AdvancedBalancer: node scores.  Component scores are in 1/1000. *)

\* x / y * k for float64, truncated to an integer, without overflowing 32 bits
ScaledDiv(x, y, k) == (x \div y) * k + ((x % y) * k) \div y

calculateResourceScore(c, cm, node) ==
    LET exists == node.name \in DOMAIN cm
        blend == exists /\ cm[node.name].P90 > 0
        cpuInt == IF blend THEN 7 * node.cpu + 300 * cm[node.name].P90 ELSE node.cpu * 10
        memoryInt == IF blend THEN 7 * node.mem + 300 * cm[node.name].P90 ELSE node.mem * 10
        storageInt == node.sto * 10
        weightedSum == cpuInt * c.weights.cpu + memoryInt * c.weights.mem
                       + storageInt * c.weights.sto
        totalWeight == c.weights.cpu + c.weights.mem + c.weights.sto
    IN IF totalWeight = 0
       THEN NaN   \* float64(0) / float64(0): weights are not negative, so weightedSum is 0 too
       ELSE Num(ScaledDiv(weightedSum, totalWeight, 10))

recentMigrations(hist, nodeName, t) ==
    Cardinality({i \in DOMAIN hist :
        /\ (hist[i].FromNode = nodeName \/ hist[i].ToNode = nodeName)
        /\ hist[i].Timestamp > t - OneHour})

calculateStabilityScore(hist, node, t) ==
    LET moved == SeqFilterBy(node.vms, [i \in DOMAIN node.vms |-> node.vms[i].lastMoved # ZeroTime])
        vmCount == Len(moved)
        totalAge == SumSeq([i \in DOMAIN moved |-> t - moved[i].lastMoved])
        \* averageAge > 24.0 hours; age in hours is ticks / OneHour
        ageBonus == IF vmCount = 0 THEN 0
                    ELSE IF totalAge > 24 * OneHour * vmCount THEN 20000
                    ELSE (totalAge * 20000) \div (24 * OneHour * vmCount)
    IN Num(10000 * recentMigrations(hist, node.name, t) - ageBonus)

calculateMigrationCost(node) ==
    LET cpuInt == node.cpu \div 10
        memoryInt == node.mem \div 10
    IN Num((cpuInt + memoryInt) * 5
           + (IF cpuInt > 80 \/ memoryInt > 80 THEN 10000 ELSE 0))

calculateCapacityScoreSimplified(c, node) ==
    LET cpuScore == IF node.cpu > 0 THEN 1000 - node.cpu ELSE 0
        memoryScore == IF node.mem > 0 THEN 1000 - node.mem ELSE 0
    IN Num((6 * cpuScore + 4 * memoryScore) * GetAggressivenessConfig(c).CapacityWeight)

calculateCapacityScore(c, cm, node) ==
    IF node.name \notin DOMAIN cm THEN calculateCapacityScoreSimplified(c, node)
    ELSE LET p == cm[node.name].P90
             s == IF p > 0 THEN 1000 - p ELSE 0
         IN Num(10 * s * GetAggressivenessConfig(c).CapacityWeight)

\* resource*0.4 + stability*0.2 + capacity*0.3 + cost*0.1, in 1/10000
finalScore(r, s, cap, m) ==
    IF r.nan \/ s.nan \/ cap.nan \/ m.nan THEN NaN
    ELSE Num(4 * r.v + 2 * s.v + 3 * cap.v + m.v)

calculateAdvancedNodeScores(c, cm, hist, nodes, t) ==
    sortByScore([i \in DOMAIN nodes |->
        [Node |-> nodes[i].name,
         Score |-> finalScore(calculateResourceScore(c, cm, nodes[i]),
                              calculateStabilityScore(hist, nodes[i], t),
                              calculateCapacityScore(c, cm, nodes[i]),
                              calculateMigrationCost(nodes[i]))]])

----------------------------------------------------------------------------
(* AdvancedBalancer: the planner *)

\* a filter that lets every listed node through
filterAvailableNodes_All(c, nodes) == nodes

filterAvailableNodes(c, nodes) ==
    SeqFilterBy(nodes, [i \in DOMAIN nodes |->
        nodes[i].status = "online" /\ ~isInMaintenance(c, nodes[i].name)])

\* the usage compared with half the threshold
exceedsThreshold_Half(c, node) ==
    \/ node.cpu > c.thresholds.cpu * 5
    \/ node.mem > c.thresholds.mem * 5
    \/ node.sto > c.thresholds.sto * 5

\* float32 comparison of the usage with the threshold
exceedsThreshold(c, node) ==
    \/ node.cpu > c.thresholds.cpu * 10
    \/ node.mem > c.thresholds.mem * 10
    \/ node.sto > c.thresholds.sto * 10

needsBalancing(c, nodes) == \E i \in DOMAIN nodes : exceedsThreshold(c, nodes[i])

\* int(node.CPU.Usage) > cpuThreshold: the usage is truncated to a whole percentage
isOverloaded(c, node) ==
    \/ node.cpu \div 10 > c.thresholds.cpu
    \/ node.mem \div 10 > c.thresholds.mem
    \/ node.sto \div 10 > c.thresholds.sto

\* canMigrateVM without the look into the migration history
canMigrateVM_NoHistory(e, hist, vm, sourceNode, t, ord) ==
    /\ ~(vm.lastMoved # ZeroTime /\ vm.lastMoved > t - OneHour)
    /\ ValidatePlacement(e, vm, sourceNode, ord)

\* canMigrateVM without the look at vm.LastMoved
canMigrateVM_NoLastMoved(e, hist, vm, sourceNode, t, ord) ==
    /\ ~(\E i \in DOMAIN hist : hist[i].VMID = vm.id /\ hist[i].Timestamp > t - OneHour)
    /\ ValidatePlacement(e, vm, sourceNode, ord)

canMigrateVM(e, hist, vm, sourceNode, t, ord) ==
    /\ ~(vm.lastMoved # ZeroTime /\ vm.lastMoved > t - OneHour)
    /\ ~(\E i \in DOMAIN hist : hist[i].VMID = vm.id /\ hist[i].Timestamp > t - OneHour)
    /\ ValidatePlacement(e, vm, sourceNode, ord)

RECURSIVE firstValid(_, _, _)
firstValid(nodeScores, sourceNode, validNodes) ==
    IF nodeScores = << >> THEN ""
    ELSE IF Head(nodeScores).Node # sourceNode /\ Head(nodeScores).Node \in Range(validNodes)
         THEN Head(nodeScores).Node
         ELSE firstValid(Tail(nodeScores), sourceNode, validNodes)

findBestTargetNode(e, vm, nodeScores, sourceNode, ord) ==
    LET names == [i \in DOMAIN nodeScores |-> nodeScores[i].Node]
        availableNodes == SeqFilterBy(names, [i \in DOMAIN names |-> names[i] # sourceNode])
        validNodes == GetValidTargetNodes(e, vm, availableNodes, ord)
    IN firstValid(nodeScores, sourceNode, validNodes)

\* nodeScoreMap[name]: the last entry of that name
scoreOf(nodeScores, name) ==
    LET idx == {i \in DOMAIN nodeScores : nodeScores[i].Node = name}
    IN nodeScores[CHOOSE i \in idx : \A j \in idx : j <= i].Score

hasScore(nodeScores, name) == \E i \in DOMAIN nodeScores : nodeScores[i].Node = name

calculateResourceGain(sourceNode, targetNode, nodeScores) ==
    IF ~hasScore(nodeScores, sourceNode) \/ ~hasScore(nodeScores, targetNode) THEN Num(0)
    ELSE Minus(scoreOf(nodeScores, sourceNode), scoreOf(nodeScores, targetNode))

Migration(vm, from, to) == [VM |-> vm, FromNode |-> from, ToNode |-> to]

\* whether the planner emits a migration for vm on overloaded node src, and where to
candidateTarget(e, hist, nodeScores, agg, src, vm, t, ord) ==
    IF vm.status # "running" THEN ""
    ELSE IF ~canMigrateVM(e, hist, vm, src, t, ord) THEN ""
    ELSE LET targetNode == findBestTargetNode(e, vm, nodeScores, src, ord)
         IN IF targetNode = "" THEN ""
            ELSE IF Less(calculateResourceGain(src, targetNode, nodeScores),
                         Num(agg.MinImprovement))
                 THEN ""
                 ELSE targetNode

RECURSIVE planMigrations_NoCap(_, _, _, _, _, _, _, _)
\* the two loops without the return at MaxMigrations
planMigrations_NoCap(e, hist, nodeScores, agg, cands, acc, t, ord) ==
    IF cands = << >> THEN acc
    ELSE LET cand == Head(cands)
             targetNode == candidateTarget(e, hist, nodeScores, agg, cand.node, cand.vm, t, ord)
         IN planMigrations_NoCap(e, hist, nodeScores, agg, Tail(cands),
                                 IF targetNode = "" THEN acc
                                 ELSE Append(acc, Migration(cand.vm, cand.node, targetNode)),
                                 t, ord)

RECURSIVE planMigrations(_, _, _, _, _, _, _, _)
\* the two nested loops of findOptimalMigrations over cands, the (node, VM)
\* pairs in visiting order; returns as soon as the plan holds MaxMigrations
planMigrations(e, hist, nodeScores, agg, cands, acc, t, ord) ==
    IF cands = << >> THEN acc
    ELSE LET cand == Head(cands)
             targetNode == candidateTarget(e, hist, nodeScores, agg, cand.node, cand.vm, t, ord)
         IN IF targetNode = ""
            THEN planMigrations(e, hist, nodeScores, agg, Tail(cands), acc, t, ord)
            ELSE LET acc1 == Append(acc, Migration(cand.vm, cand.node, targetNode))
                 IN IF Len(acc1) >= MaxMigrations THEN acc1
                    ELSE planMigrations(e, hist, nodeScores, agg, Tail(cands), acc1, t, ord)

\* loops that come by every VM of a node a second time
candidatesOf_Revisit(nodes) ==
    Flatten([i \in DOMAIN nodes |->
        [j \in 1..(2 * Len(nodes[i].vms)) |->
            [node |-> nodes[i].name, vm |-> nodes[i].vms[((j - 1) % Len(nodes[i].vms)) + 1]]]])

\* `for i := range overloadedNodes`, `for j := range node.VMs`: the pairs visited
candidatesOf(nodes) ==
    Flatten([i \in DOMAIN nodes |->
        [j \in DOMAIN nodes[i].vms |-> [node |-> nodes[i].name, vm |-> nodes[i].vms[j]]]])

findOptimalMigrations(c, e, hist, nodes, nodeScores, agg, t, ord) ==
    LET overloadedNodes == SeqFilterBy(nodes, [i \in DOMAIN nodes |-> isOverloaded(c, nodes[i])])
    IN planMigrations(e, hist, nodeScores, agg, candidatesOf(overloadedNodes), << >>, t, ord)

RECURSIVE appendSuccessful_All(_, _)
\* every result is recorded, the failed ones too
appendSuccessful_All(hist, results) ==
    IF results = << >> THEN hist
    ELSE LET r == Head(results)
         IN appendSuccessful_All(
                Append(hist, [VMID |-> r.VM.id, FromNode |-> r.SourceNode,
                              ToNode |-> r.TargetNode, Timestamp |-> r.Timestamp]),
                Tail(results))

RECURSIVE appendSuccessful(_, _)
appendSuccessful(hist, results) ==
    IF results = << >> THEN hist
    ELSE LET r == Head(results)
             h1 == IF r.Success
                   THEN Append(hist, [VMID |-> r.VM.id, FromNode |-> r.SourceNode,
                                      ToNode |-> r.TargetNode, Timestamp |-> r.Timestamp])
                   ELSE hist
         IN appendSuccessful(h1, Tail(results))

\* append the successful results, then keep the entries of the last 24 hours
updateMigrationHistory(hist, results, t) ==
    LET h1 == appendSuccessful(hist, results)
    IN SeqFilterBy(h1, [i \in DOMAIN h1 |-> h1[i].Timestamp > t - OneDay])

----------------------------------------------------------------------------
(* AdvancedBalancer: load profiles.  The usage patterns are the fixed        *)
(* placeholders of analyze*PatternFromHistory (CPU "sustained" at 90).       *)

RECURSIVE firstPriorityTag(_)
firstPriorityTag(tags) ==
    IF tags = << >> THEN ""
    ELSE IF Head(tags) \in {Tag("", "realtime"), Tag("", "critical"), Tag("", "high-priority")}
         THEN "realtime"
    ELSE IF Head(tags) \in {Tag("", "interactive"), Tag("", "user-facing")}
         THEN "interactive"
    ELSE IF Head(tags) \in {Tag("", "background"), Tag("", "batch"), Tag("", "low-priority")}
         THEN "background"
    ELSE firstPriorityTag(Tail(tags))

determinePriority(vm) ==
    IF firstPriorityTag(vm.tags) # "" THEN firstPriorityTag(vm.tags)
    ELSE "realtime"   \* cpu.Type = "sustained" and cpu.SustainedLevel = 90 > 70

RECURSIVE firstCriticalityTag(_)
firstCriticalityTag(tags) ==
    IF tags = << >> THEN ""
    ELSE IF Head(tags) \in {Tag("", "critical"), Tag("", "essential")} THEN "critical"
    ELSE IF Head(tags) \in {Tag("", "important"), Tag("", "production")} THEN "important"
    ELSE firstCriticalityTag(Tail(tags))

determineCriticality(vm, priority) ==
    IF firstCriticalityTag(vm.tags) # "" THEN firstCriticalityTag(vm.tags)
    ELSE CASE priority = "realtime" -> "critical"
           [] priority = "interactive" -> "important"
           [] OTHER -> "normal"

analyzeLoadProfile(vm) ==
    [Priority |-> determinePriority(vm),
     Criticality |-> determineCriticality(vm, determinePriority(vm))]

RECURSIVE profileAll(_, _)
profileAll(lp, vms) ==
    IF vms = << >> THEN lp
    ELSE profileAll(IF Head(vms).status = "running"
                    THEN MapPut(lp, Head(vms).id, analyzeLoadProfile(Head(vms)))
                    ELSE lp,
                    Tail(vms))

allVMs(nodes) == Flatten([i \in DOMAIN nodes |-> nodes[i].vms])

updateLoadProfiles(lp, nodes) == profileAll(lp, allVMs(nodes))

----------------------------------------------------------------------------
(* Balancer (threshold balancer) *)

Balancer_filterAvailableNodes(c, nodes) ==
    SeqFilterBy(nodes, [i \in DOMAIN nodes |-> ~isInMaintenance(c, nodes[i].name)])

Balancer_needsBalancing(c, nodes) ==
    \E i \in DOMAIN nodes : ~isInMaintenance(c, nodes[i].name) /\ exceedsThreshold(c, nodes[i])

\* weightedScore / totalWeight; the score value kept is the numerator, which
\* orders the scores of one configuration like the quotient does
calculateNodeScore(c, node) ==
    LET totalWeight == c.weights.cpu + c.weights.mem + c.weights.sto
        weightedScore == node.cpu * c.weights.cpu + node.mem * c.weights.mem
                         + node.sto * c.weights.sto
    IN [Node |-> node.name,
        Score |-> IF totalWeight = 0 THEN NaN ELSE Num(weightedScore)]

calculateNodeScores(c, nodes) ==
    sortByScore([i \in DOMAIN nodes |-> calculateNodeScore(c, nodes[i])])

Balancer_findBestTargetNode(e, vm, nodeScores, ord) ==
    LET names == [i \in DOMAIN nodeScores |-> nodeScores[i].Node]
        candidates == SeqFilterBy(names, [i \in DOMAIN names |-> names[i] # vm.node])
        validNodes == GetValidTargetNodes(e, vm, candidates, ord)
        hits == {i \in DOMAIN nodeScores : nodeScores[i].Node \in Range(validNodes)}
    IN IF hits = {} THEN ""
       ELSE nodeScores[CHOOSE i \in hits : \A j \in hits : i <= j].Node

\* math.Max(0, improvement): NaN stays NaN
Max0(x) == IF x.nan THEN NaN ELSE IF x.v > 0 THEN x ELSE Num(0)

Balancer_calculateResourceGain(sourceNode, targetNode, nodeScores) ==
    LET sourceScore == IF hasScore(nodeScores, sourceNode)
                       THEN scoreOf(nodeScores, sourceNode) ELSE Num(0)
        targetScore == IF hasScore(nodeScores, targetNode)
                       THEN scoreOf(nodeScores, targetNode) ELSE Num(0)
    IN Max0(Minus(sourceScore, targetScore))

\* gain <= 0
NotPositive(x) == ~x.nan /\ x.v <= 0

Balancer_candidateTarget(e, nodeScores, src, vm, ord) ==
    IF IsIgnored(e, vm.id) THEN ""
    ELSE LET targetNode == Balancer_findBestTargetNode(e, vm, nodeScores, ord)
         IN IF targetNode = "" THEN ""
            ELSE IF NotPositive(Balancer_calculateResourceGain(src, targetNode, nodeScores))
                 THEN ""
                 ELSE targetNode

findMigrations(c, e, nodes, nodeScores, ord) ==
    LET sourceNodes == SeqFilterBy(nodes, [i \in DOMAIN nodes |->
                           ~isInMaintenance(c, nodes[i].name) /\ exceedsThreshold(c, nodes[i])])
        cands == candidatesOf(sourceNodes)
        kept == SeqFilterBy(cands, [i \in DOMAIN cands |->
                    Balancer_candidateTarget(e, nodeScores, cands[i].node, cands[i].vm, ord) # ""])
    IN [i \in DOMAIN kept |->
           Migration(kept[i].vm, kept[i].node,
                     Balancer_candidateTarget(e, nodeScores, kept[i].node, kept[i].vm, ord))]

----------------------------------------------------------------------------
(* The platform behind proxmox.ClientInterface *)

hostOf(nodes, vmID) ==
    LET hs == {i \in DOMAIN nodes : \E j \in DOMAIN nodes[i].vms : nodes[i].vms[j].id = vmID}
    IN IF hs = {} THEN "" ELSE nodes[CHOOSE i \in hs : TRUE].name

\* whether the platform accepts POST /nodes/{sourceNode}/qemu/{vmID}/migrate
migrateAccepted(nodes, lk, vmID, sourceNode, targetNode) ==
    /\ vmID \notin lk
    /\ hostOf(nodes, vmID) = sourceNode
    /\ \E i \in DOMAIN nodes : nodes[i].name = targetNode

\* the error client.MigrateVM returns; "" is nil
MigrateVM(nodes, lk, vmID, sourceNode, targetNode) ==
    IF migrateAccepted(nodes, lk, vmID, sourceNode, targetNode) THEN ""
    ELSE "migration failed with status 500"

vmOf(nodes, vmID) ==
    LET vms == allVMs(nodes)
    IN vms[CHOOSE i \in DOMAIN vms : vms[i].id = vmID]

\* the listing after the platform moved the VM
moveVM(nodes, vmID, sourceNode, targetNode) ==
    LET vm == vmOf(nodes, vmID)
    IN [i \in DOMAIN nodes |->
           IF nodes[i].name = sourceNode
           THEN [nodes[i] EXCEPT !.vms = SeqFilterBy(@, [j \in DOMAIN @ |-> @[j].id # vmID])]
           ELSE IF nodes[i].name = targetNode
           THEN [nodes[i] EXCEPT !.vms = Append(@, [vm EXCEPT !.node = targetNode])]
           ELSE nodes[i]]

----------------------------------------------------------------------------
(* One balancing cycle: Run up to the plan, one step per migrate call, and   *)
(* the end of Run.                                                           *)

GroupOrders == {<<"web", "db">>, <<"db", "web">>}

NoCycle ==
    [force |-> FALSE, at |-> ZeroTime, outcome |-> "none", nodes |-> << >>,
     scores |-> << >>, plan |-> << >>, results |-> << >>]

\* Run returns before planning: "failed" (no host listing), "insufficient"
\* (fewer than two available hosts), "balanced" (nothing above a threshold),
\* "cooldown" (too soon after the last run)
Returned(force, outcome, nodes) ==
    [NoCycle EXCEPT !.force = force, !.at = now, !.outcome = outcome, !.nodes = nodes]

\* the error Run returns with that outcome; "" is nil
RunError(c, outcome) ==
    CASE outcome = "failed" -> "failed to get nodes"
      [] outcome = "insufficient" ->
            IF IsAdvancedBalancer(c) THEN "insufficient available nodes for balancing"
            ELSE "insufficient available nodes for balancing (need at least 2)"
      [] OTHER -> ""

BalancingResult(m, err) ==
    [SourceNode |-> m.FromNode, TargetNode |-> m.ToNode, VM |-> m.VM,
     Success |-> err = "", ErrorMessage |-> err, Timestamp |-> now]

\* client.MigrateVM(vmID, sourceNode, targetNode) as the platform receives it;
\* asLeader is what raft.State() is at that moment
MigrateCall(m) ==
    [vm |-> m.VM.id, from |-> m.FromNode, to |-> m.ToNode,
     asLeader |-> raft.state = "Leader"]

\* client.GetNodes() fails: both balancers return the error
RunGetNodesFails(force) ==
    /\ pc = "idle"
    /\ cycles < MaxCycles
    /\ apiFails < MaxApiFailures
    /\ apiFails' = apiFails + 1
    /\ cycle' = Returned(force, "failed", << >>)
    /\ calls' = << >>
    /\ cycles' = cycles + 1
    /\ UNCHANGED <<now, config, cluster, histData, locked, engine, lastRun,
                   migrationHistory, capacityMetrics, loadProfiles, pc>>

\* AdvancedBalancer.Run(force), up to and including findOptimalMigrations
AdvancedRun(force, ord) ==
    /\ pc = "idle"
    /\ cycles < MaxCycles
    /\ IsAdvancedBalancer(config)
    /\ cycles' = cycles + 1
    /\ calls' = << >>
    /\ LET nodes == cluster
           availableNodes == filterAvailableNodes(config, nodes)
           lp == IF config.loadProfilesEnabled
                 THEN updateLoadProfiles(loadProfiles, availableNodes) ELSE loadProfiles
           cm == IF config.capacityEnabled
                 THEN updateCapacityMetrics(capacityMetrics, availableNodes, histData)
                 ELSE capacityMetrics
           aggConfig == GetAggressivenessConfig(config)
           nodeScores == calculateAdvancedNodeScores(config, cm, migrationHistory,
                                                     availableNodes, now)
           migrations == findOptimalMigrations(config, engine, migrationHistory,
                                               availableNodes, nodeScores, aggConfig, now, ord)
       IN IF Len(availableNodes) < 2
          THEN /\ cycle' = Returned(force, "insufficient", nodes)
               /\ UNCHANGED <<loadProfiles, capacityMetrics, pc>>
          ELSE /\ loadProfiles' = lp
               /\ capacityMetrics' = cm
               /\ IF ~force /\ ~needsBalancing(config, availableNodes)
                  THEN cycle' = Returned(force, "balanced", nodes) /\ pc' = pc
                  ELSE IF ~force /\ now - lastRun < aggConfig.CooldownPeriod
                  THEN cycle' = Returned(force, "cooldown", nodes) /\ pc' = pc
                  ELSE /\ cycle' = [force |-> force, at |-> now, outcome |-> "running",
                                    nodes |-> nodes, scores |-> nodeScores,
                                    plan |-> migrations, results |-> << >>]
                       /\ pc' = "exec"
    /\ UNCHANGED <<now, config, cluster, histData, locked, apiFails, engine, lastRun,
                   migrationHistory>>

\* the loop that stops at the first failed migration
planExhausted_AbortOnFailure(migrations, results) ==
    \/ Len(results) >= Len(migrations)
    \/ results # << >> /\ ~results[Len(results)].Success

\* `for i := range migrations` of executeMigrations has no migration left
planExhausted(migrations, results) == Len(results) >= Len(migrations)

\* the loop that walks the plan from its end
nextMigration_Reversed(migrations, results) == migrations[Len(migrations) - Len(results)]

\* migration := &migrations[i], i being the number of results so far
nextMigration(migrations, results) == migrations[Len(results) + 1]

\* executeMigrations: one turn of its loop
AdvancedMigrate ==
    /\ pc = "exec"
    /\ IsAdvancedBalancer(config)
    /\ ~planExhausted(cycle.plan, cycle.results)
    /\ LET m == nextMigration(cycle.plan, cycle.results)
           err == MigrateVM(cluster, locked, m.VM.id, m.FromNode, m.ToNode)
           ok == err = ""
       IN /\ calls' = Append(calls, MigrateCall(m))
          /\ cluster' = IF ok THEN moveVM(cluster, m.VM.id, m.FromNode, m.ToNode) ELSE cluster
          /\ cycle' = [cycle EXCEPT !.results = Append(@, BalancingResult(m, err))]
    /\ UNCHANGED <<now, config, histData, locked, apiFails, engine, lastRun,
                   migrationHistory, capacityMetrics, loadProfiles, pc, cycles>>

\* a Run that returns its results without b.lastRun = time.Now()
AdvancedFinish_KeepsLastRun ==
    /\ pc = "exec"
    /\ IsAdvancedBalancer(config)
    /\ planExhausted(cycle.plan, cycle.results)
    /\ migrationHistory' = updateMigrationHistory(migrationHistory, cycle.results, now)
    /\ cycle' = [cycle EXCEPT !.outcome = "done"]
    /\ pc' = "idle"
    /\ UNCHANGED <<now, config, cluster, histData, locked, apiFails, engine, lastRun,
                   capacityMetrics, loadProfiles, calls, cycles>>

\* the end of AdvancedBalancer.Run: updateMigrationHistory, lastRun
AdvancedFinish ==
    /\ pc = "exec"
    /\ IsAdvancedBalancer(config)
    /\ planExhausted(cycle.plan, cycle.results)
    /\ migrationHistory' = updateMigrationHistory(migrationHistory, cycle.results, now)
    /\ lastRun' = now
    /\ cycle' = [cycle EXCEPT !.outcome = "done"]
    /\ pc' = "idle"
    /\ UNCHANGED <<now, config, cluster, histData, locked, apiFails, engine,
                   capacityMetrics, loadProfiles, calls, cycles>>

\* Balancer.Run(force), up to and including findMigrations
BalancerRun(force, ord) ==
    /\ pc = "idle"
    /\ cycles < MaxCycles
    /\ ~IsAdvancedBalancer(config)
    /\ cycles' = cycles + 1
    /\ calls' = << >>
    /\ LET nodes == cluster
           availableNodes == Balancer_filterAvailableNodes(config, nodes)
           e == ProcessVMs(engine, allVMs(nodes))
           nodeScores == calculateNodeScores(config, availableNodes)
           migrations == findMigrations(config, e, nodes, nodeScores, ord)
       IN IF Len(availableNodes) < 2
          THEN /\ cycle' = Returned(force, "insufficient", nodes)
               /\ UNCHANGED <<engine, pc>>
          ELSE /\ engine' = e
               /\ IF ~force /\ ~Balancer_needsBalancing(config, nodes)
                  THEN cycle' = Returned(force, "balanced", nodes) /\ pc' = pc
                  ELSE /\ cycle' = [force |-> force, at |-> now, outcome |-> "running",
                                    nodes |-> nodes, scores |-> nodeScores,
                                    plan |-> migrations, results |-> << >>]
                       /\ pc' = "exec"
    /\ UNCHANGED <<now, config, cluster, histData, locked, apiFails, lastRun,
                   migrationHistory, capacityMetrics, loadProfiles>>

\* executeMigration: the host listing for the reported gain, then the migrate call
BalancerMigrate(listingFails) ==
    /\ pc = "exec"
    /\ ~IsAdvancedBalancer(config)
    /\ Len(cycle.results) < Len(cycle.plan)
    /\ listingFails => apiFails < MaxApiFailures
    /\ LET m == cycle.plan[Len(cycle.results) + 1]
           err == MigrateVM(cluster, locked, m.VM.id, m.FromNode, m.ToNode)
           ok == err = ""
       IN IF listingFails
          THEN /\ apiFails' = apiFails + 1
               /\ cycle' = [cycle EXCEPT !.results = Append(@, BalancingResult(m, "failed to get nodes for scoring"))]
               /\ UNCHANGED <<calls, cluster>>
          ELSE /\ calls' = Append(calls, MigrateCall(m))
               /\ cluster' = IF ok THEN moveVM(cluster, m.VM.id, m.FromNode, m.ToNode)
                             ELSE cluster
               /\ cycle' = [cycle EXCEPT !.results = Append(@, BalancingResult(m, err))]
               /\ UNCHANGED apiFails
    /\ UNCHANGED <<now, config, histData, locked, engine, lastRun,
                   migrationHistory, capacityMetrics, loadProfiles, pc, cycles>>

\* the end of Balancer.Run
BalancerFinish ==
    /\ pc = "exec"
    /\ ~IsAdvancedBalancer(config)
    /\ Len(cycle.results) = Len(cycle.plan)
    /\ lastRun' = now
    /\ cycle' = [cycle EXCEPT !.outcome = "done"]
    /\ pc' = "idle"
    /\ UNCHANGED <<now, config, cluster, histData, locked, apiFails, engine,
                   migrationHistory, capacityMetrics, loadProfiles, calls, cycles>>

\* the load has moved: the hosts report each other's utilisation (the
\* first host that of the last, and so on)
shiftLoad(nodes) ==
    [i \in DOMAIN nodes |->
        [nodes[i] EXCEPT !.cpu = nodes[Len(nodes) + 1 - i].cpu,
                         !.mem = nodes[Len(nodes) + 1 - i].mem,
                         !.sto = nodes[Len(nodes) + 1 - i].sto]]

\* the load has gone: every host reports half the utilisation it had
calmLoad(nodes) ==
    [i \in DOMAIN nodes |->
        [nodes[i] EXCEPT !.cpu = @ \div 2, !.mem = @ \div 2, !.sto = @ \div 2]]

LoadChanges == {"same", "shift", "calm"}

\* time passes between two cycles, and the load may change meanwhile
Tick(d, load) ==
    /\ pc = "idle"
    /\ cycles >= 1
    /\ cycles < MaxCycles
    /\ now = cycle.at
    /\ now' = now + d
    /\ cluster' = CASE load = "shift" -> shiftLoad(cluster)
                     [] load = "calm" -> calmLoad(cluster)
                     [] OTHER -> cluster
    /\ UNCHANGED <<config, histData, locked, apiFails, balancerVars, appVars>>

TickSteps == {HalfHour, OneHour, 4 * OneHour, OneDay + HalfHour}

----------------------------------------------------------------------------
(* Configurations and clusters the balancers start from *)

Config(type, aggressiveness, maintenance, weights, enabled) ==
    [balancerType |-> type, aggressiveness |-> aggressiveness, maintenance |-> maintenance,
     thresholds |-> DefaultThresholds, weights |-> weights,
     capacityEnabled |-> enabled, loadProfilesEnabled |-> enabled, raftEnabled |-> FALSE]

Configs ==
    {Config("advanced", g, << >>, DefaultWeights, en) :
        g \in {"low", "medium", "high"}, en \in BOOLEAN}
    \cup {Config("advanced", "medium", <<"c">>, DefaultWeights, FALSE),
          Config("advanced", "medium", << >>, ZeroWeights, FALSE),
          Config("threshold", "medium", << >>, DefaultWeights, FALSE),
          Config("threshold", "medium", <<"c">>, DefaultWeights, FALSE),
          Config("threshold", "medium", << >>, ZeroWeights, FALSE),
          Config("advanced", "medium", <<"a", "d">>, DefaultWeights, FALSE),
          Config("threshold", "medium", <<"a", "d">>, DefaultWeights, FALSE)}

VM(id, node, status, tags, lastMoved) ==
    [id |-> id, node |-> node, status |-> status, tags |-> tags, lastMoved |-> lastMoved]

Node(name, status, cpu, mem, sto, vms) ==
    [name |-> name, status |-> status, cpu |-> cpu, mem |-> mem, sto |-> sto, vms |-> vms]

\* one loaded host full of untagged VMs next to an idle one
Crowded ==
    <<Node("a", "online", 850, 750, 800,
           [i \in 1..NumPlainVMs |-> VM(i, "a", "running", << >>, ZeroTime)]),
      Node("b", "online", 300, 250, 200, << >>)>>

\* a loaded host whose VMs carry every kind of rule tag
Tagged ==
    <<Node("a", "online", 850, 750, 800,
           <<VM(1, "a", "running", <<Tag(PIgnore, "dev")>>, ZeroTime),
             VM(2, "a", "running", <<Tag(PPin, "a")>>, ZeroTime),
             VM(3, "a", "running", <<Tag(PPin, "b")>>, ZeroTime),
             VM(4, "a", "running", <<Tag(PAntiAffinity, "web")>>, ZeroTime),
             VM(5, "a", "running", <<PaddedTag(PAffinity, "db")>>, ZeroTime),
             VM(8, "a", "stopped", << >>, ZeroTime)>>),
      Node("b", "online", 400, 350, 300,
           <<VM(7, "b", "running", <<Tag(PAffinity, "db")>>, ZeroTime)>>),
      Node("c", "online", 200, 250, 200,
           <<VM(6, "c", "running", <<Tag(PAntiAffinity, "web")>>, ZeroTime)>>)>>

\* no host above a threshold
Balanced ==
    <<Node("a", "online", 500, 600, 700, <<VM(1, "a", "running", << >>, ZeroTime)>>),
      Node("b", "online", 300, 250, 200, <<VM(3, "b", "running", << >>, ZeroTime)>>),
      Node("c", "online", 800, 850, 900, << >>)>>

\* VMs the listing reports as moved half an hour, an hour and two days ago
Recent ==
    <<Node("a", "online", 850, 750, 800,
           <<VM(1, "a", "running", << >>, StartTime - HalfHour),
             VM(2, "a", "running", << >>, StartTime - OneHour),
             VM(3, "a", "running", << >>, StartTime - 2 * OneDay),
             VM(4, "a", "running", <<Tag("", "batch")>>, ZeroTime)>>),
      Node("b", "online", 300, 250, 200, << >>)>>

\* the idle host is offline
Offline ==
    <<Node("a", "online", 850, 750, 950, <<VM(3, "a", "running", << >>, ZeroTime)>>),
      Node("b", "offline", 0, 0, 0, << >>),
      Node("c", "online", 300, 250, 200, << >>)>>

\* one quiet host and an offline one
Lonely ==
    <<Node("a", "online", 500, 600, 700, <<VM(3, "a", "running", << >>, ZeroTime)>>),
      Node("c", "offline", 0, 0, 0, << >>)>>

\* two loaded hosts, a moderately used one and an idle one
Busy ==
    <<Node("a", "online", 900, 800, 800, <<VM(1, "a", "running", << >>, ZeroTime)>>),
      Node("b", "online", 850, 750, 800, <<VM(2, "b", "running", << >>, ZeroTime)>>),
      Node("c", "online", 400, 350, 300, << >>),
      Node("d", "online", 100, 100, 100, << >>)>>

\* VMs that belong to two anti-affinity groups, or to two affinity groups
Multi ==
    <<Node("a", "online", 850, 750, 800,
           <<VM(1, "a", "running", <<Tag(PAntiAffinity, "web"), Tag(PAntiAffinity, "db")>>, ZeroTime),
             VM(2, "a", "running", <<Tag(PAffinity, "web"), Tag(PAffinity, "db")>>, ZeroTime)>>),
      Node("b", "online", 400, 350, 300,
           <<VM(3, "b", "running", <<Tag(PAntiAffinity, "db")>>, ZeroTime),
             VM(5, "b", "running", <<Tag(PAffinity, "web")>>, ZeroTime)>>),
      Node("c", "online", 200, 250, 200,
           <<VM(4, "c", "running", <<Tag(PAntiAffinity, "web")>>, ZeroTime),
             VM(6, "c", "running", <<Tag(PAffinity, "db")>>, ZeroTime)>>)>>

\* one loaded host with a single untagged VM next to an idle host
Seed ==
    <<Node("a", "online", 850, 750, 800, <<VM(100, "a", "running", << >>, ZeroTime)>>),
      Node("b", "online", 300, 250, 200, << >>)>>

\* one loaded host and two idle hosts of equal usage, listed c before b
Twins ==
    <<Node("a", "online", 850, 750, 800, <<VM(1, "a", "running", << >>, ZeroTime)>>),
      Node("c", "online", 300, 250, 200, << >>),
      Node("b", "online", 300, 250, 200, << >>)>>

\* a host at 80.5 % CPU, half a point above the threshold, next to an idle one
Edge ==
    <<Node("a", "online", 805, 500, 500, <<VM(1, "a", "running", << >>, ZeroTime)>>),
      Node("b", "online", 100, 100, 100, << >>)>>

Clusters == {Crowded, Tagged, Balanced, Recent, Offline, Lonely, Busy, Multi, Seed, Twins, Edge}

\* rrddata reports the CPU as a fraction of 1; samples are in tenths
HistData == [h \in {"a", "b", "c", "d"} |->
                CASE h = "a" -> [err |-> FALSE, samples |-> <<8, 9, 8>>]
                  [] h = "b" -> [err |-> TRUE, samples |-> << >>]
                  [] OTHER -> [err |-> FALSE, samples |-> <<2, 3>>]]

\* NewAdvancedBalancer, NewBalancer: nothing has run yet
NewBalancerState ==
    /\ now = StartTime
    /\ engine = NewEngine
    /\ lastRun = ZeroTime
    /\ migrationHistory = << >>
    /\ capacityMetrics = EmptyMap
    /\ loadProfiles = EmptyMap
    /\ pc = "idle"
    /\ cycle = NoCycle
    /\ calls = << >>
    /\ cycles = 0
    /\ apiFails = 0

InitBalancer ==
    /\ NewBalancerState
    /\ histData = HistData

NoRaft ==
    /\ raft = [state |-> "Follower", leader |-> ""]
    /\ lastLeader = ""
    /\ leaderChan = << >>
    /\ isLeader = FALSE
    /\ loops = 0
    /\ stopped = FALSE
    /\ requested = 0
    /\ reported = ""

Init ==
    /\ InitBalancer
    /\ NoRaft
    /\ config \in Configs
    /\ cluster \in IF IsAdvancedBalancer(config) THEN Clusters ELSE Clusters \ {Crowded}
    /\ locked \in IF cluster = Recent THEN {{}, {3}} ELSE {{}}

\* runBalancingCycle wraps the error of balancer.Run
runBalancingCycleError(err) == IF err = "" THEN "" ELSE "balancing cycle failed: " \o err

\* `if err := runBalancingCycle(); err != nil { fmt.Printf(...) }`: the line printed last
cycleReport(old, err) == IF err = "" THEN old ELSE "Error during balancing cycle: " \o err

\* the loop that returns when a cycle has returned an error
loopsAfterCycle_ReturnOnError(n, err) == IF err = "" THEN n ELSE n - 1

\* the ticker case has no return: the loop waits for the next tick
loopsAfterCycle(n, err) == n

\* what a control loop does with the error of the cycle it has run
AfterCycle(err) ==
    /\ reported' = cycleReport(reported, err)
    /\ loops' = loopsAfterCycle(loops, err)

\* StartWithBalancerType has built the app and enters its loop
AppStart ==
    /\ ~stopped
    /\ loops = 0
    /\ loops' = 1
    /\ UNCHANGED <<now, config, platformVars, balancerVars, raft, lastLeader, leaderChan,
                   isLeader, stopped, requested, reported>>

\* the ticker case of the loop of StartWithBalancerType: App.runBalancingCycle.
\* The select takes it whenever a tick is ready, whether or not the signal
\* channel or ctx.Done() is ready too: Go chooses among the ready cases.
AppTick(ord) ==
    /\ loops >= 1
    /\ \/ RunGetNodesFails(FALSE)
       \/ AdvancedRun(FALSE, ord)
       \/ BalancerRun(FALSE, ord)
    /\ AfterCycle(runBalancingCycleError(RunError(config, cycle'.outcome)))
    /\ UNCHANGED <<raft, lastLeader, leaderChan, isLeader, stopped, requested>>

\* Run(true) comes from ForceBalance; Run(false) is what the loop calls
Next ==
    \/ AppStart
    \/ \E ord \in GroupOrders : AppTick(ord)
    \/ RunGetNodesFails(TRUE) /\ UNCHANGED appVars
    \/ \E ord \in GroupOrders : AdvancedRun(TRUE, ord) /\ UNCHANGED appVars
    \/ AdvancedMigrate /\ UNCHANGED appVars
    \/ AdvancedFinish /\ UNCHANGED appVars
    \/ \E ord \in GroupOrders : BalancerRun(TRUE, ord) /\ UNCHANGED appVars
    \/ \E listingFails \in BOOLEAN : BalancerMigrate(listingFails) /\ UNCHANGED appVars
    \/ BalancerFinish /\ UNCHANGED appVars
    \/ \E d \in TickSteps, load \in LoadChanges : Tick(d, load)

Spec == Init /\ [][Next]_vars

\* `case <-app.ctx.Done()` and `case <-sigChan` of the loop of
\* StartWithBalancerType: the loop, which is not inside a cycle, returns
AppExit ==
    /\ stopped
    /\ loops >= 1
    /\ pc = "idle"
    /\ loops' = 0
    /\ UNCHANGED <<now, config, platformVars, balancerVars, raft, lastLeader, leaderChan,
                   isLeader, stopped, requested, reported>>

\* hosts a and d are in maintenance when the manager starts
InitMaint ==
    /\ Init
    /\ config.maintenance = <<"a", "d">>
    /\ cluster = Busy

\* a cycle that has started to execute its plan runs to its end
SpecMaint ==
    /\ InitMaint
    /\ [][Next]_vars
    /\ WF_vars(AdvancedMigrate /\ UNCHANGED appVars)
    /\ WF_vars(AdvancedFinish /\ UNCHANGED appVars)
    /\ WF_vars(\E listingFails \in BOOLEAN : BalancerMigrate(listingFails) /\ UNCHANGED appVars)
    /\ WF_vars(BalancerFinish /\ UNCHANGED appVars)

\* series of historical CPU samples GetNodeHistoricalData returns for a host:
\* every short series over three values, and longer ones in and out of order
SampleValues == {10, 50, 90}

SampleSeries ==
    UNION {[1..n -> SampleValues] : n \in 1..MaxSamples}
    \cup {<<10, 20, 30, 40, 50, 60, 70, 80, 90, 100>>,
          <<70, 100, 20, 50, 90, 10, 60, 30, 80, 40>>,
          <<60, 10, 50, 20, 40, 30>>,
          <<35, 5, 25, 15, 45, 65, 55>>,
          <<11, 10, 9, 8, 7, 6, 5, 4, 3, 2, 1>>,
          <<7, 7, 3, 7, 3, 9, 9, 1>>}

\* the advanced balancer with capacity planning over the two-host cluster; the
\* history of host a is one of the series, the other histories are short
InitPct ==
    /\ NewBalancerState
    /\ NoRaft
    /\ config = Config("advanced", "high", << >>, DefaultWeights, TRUE)
    /\ cluster = Seed
    /\ locked = {}
    /\ \E series \in SampleSeries :
          histData = [HistData EXCEPT !["a"] = [err |-> FALSE, samples |-> series],
                                      !["b"] = [err |-> FALSE, samples |-> <<2, 3>>]]

\* the cycles of the advanced balancer, forced or not, each of which computes
\* the capacity metrics of the hosts from their histories
NextPct ==
    \/ \E force \in BOOLEAN, ord \in GroupOrders : AdvancedRun(force, ord) /\ UNCHANGED appVars
    \/ AdvancedMigrate /\ UNCHANGED appVars
    \/ AdvancedFinish /\ UNCHANGED appVars

SpecPct == InitPct /\ [][NextPct]_vars

----------------------------------------------------------------------------
(* Distributed mode: hashicorp raft, RaftNode.monitorLeaderChanges and the   *)
(* DistributedApp goroutines.  The instance's own address is "self".         *)

RaftStates ==
    {[state |-> "Follower", leader |-> ""], [state |-> "Follower", leader |-> "peer"],
     [state |-> "Candidate", leader |-> ""], [state |-> "Leader", leader |-> "self"]}

\* an election outcome, a lost heartbeat, a step-down
RaftChange(r) ==
    /\ r # raft
    /\ raft' = r
    /\ UNCHANGED <<now, config, platformVars, balancerVars,
                   lastLeader, leaderChan, isLeader, loops, stopped, requested, reported>>

\* RaftNode.monitorLeaderChanges: a poll that sees another leader address
MonitorLeaderChanges ==
    /\ ~stopped
    /\ raft.leader # lastLeader
    /\ lastLeader' = raft.leader
    /\ leaderChan' = IF Len(leaderChan) < ChanCap
                     THEN Append(leaderChan, raft.state = "Leader")
                     ELSE leaderChan   \* channel is full, the update is skipped
    /\ UNCHANGED <<now, config, platformVars, balancerVars, raft, isLeader, loops, stopped,
                   requested, reported>>

\* DistributedApp.Start once WaitForLeader has returned: monitorLeadership
\* and the first balancing loop are started
Start ==
    /\ ~stopped
    /\ loops = 0
    /\ raft.leader # ""
    /\ loops' = 1
    /\ UNCHANGED <<now, config, platformVars, balancerVars, raft, lastLeader, leaderChan,
                   isLeader, stopped, requested, reported>>

\* DistributedApp.monitorLeadership: one receive from the leader channel
MonitorLeadership ==
    /\ ~stopped
    /\ loops >= 1
    /\ leaderChan # << >>
    /\ (Head(leaderChan) /\ ~isLeader) => loops < MaxLoops
    /\ leaderChan' = Tail(leaderChan)
    /\ IF Head(leaderChan) /\ ~isLeader
       THEN isLeader' = TRUE /\ loops' = loops + 1     \* startBalancingLoop
       ELSE IF ~Head(leaderChan) /\ isLeader
       THEN isLeader' = FALSE /\ loops' = loops        \* stopBalancingLoop stops nothing
       ELSE UNCHANGED <<isLeader, loops>>
    /\ UNCHANGED <<now, config, platformVars, balancerVars, raft, lastLeader, stopped,
                   requested, reported>>

\* balancing loops that are inside balancer.Run
inRun == IF pc = "exec" THEN 1 ELSE 0

\* a ticker fires in a balancing loop that is waiting for it: with d.isLeader
\* the loop enters runBalancingCycle, without it the tick changes nothing.
\* The select takes the tick whether or not d.ctx.Done() is ready too.
LoopTick ==
    /\ requested + inRun < loops
    /\ isLeader
    /\ requested' = requested + 1
    /\ UNCHANGED <<now, config, platformVars, balancerVars, leaderVars, reported>>

\* `case <-d.ctx.Done(): return` of a balancing loop that is waiting in its select
LoopExit ==
    /\ stopped
    /\ requested + inRun < loops
    /\ loops' = loops - 1
    /\ UNCHANGED <<now, config, platformVars, balancerVars, raft, lastLeader, leaderChan,
                   isLeader, stopped, requested, reported>>

\* the check that never refuses a cycle
notTheLeader_Never(flag) == FALSE

\* `if !d.isLeader` of runBalancingCycle
notTheLeader(flag) == ~flag

\* runBalancingCycle: the error "not the leader, skipping balancing cycle",
\* or balancer.Run(false)
RunBalancingCycle(ord) ==
    /\ requested >= 1
    /\ requested' = requested - 1
    /\ IF notTheLeader(isLeader)
       THEN /\ UNCHANGED <<now, config, platformVars, balancerVars>>
            /\ AfterCycle("not the leader, skipping balancing cycle")
       ELSE /\ \/ RunGetNodesFails(FALSE)
               \/ AdvancedRun(FALSE, ord)
               \/ BalancerRun(FALSE, ord)
            /\ AfterCycle(runBalancingCycleError(RunError(config, cycle'.outcome)))
    /\ UNCHANGED <<raft, lastLeader, leaderChan, isLeader, stopped>>

\* SIGINT or SIGTERM: the context is cancelled
Shutdown ==
    /\ ~stopped
    /\ loops >= 1
    /\ stopped' = TRUE
    /\ UNCHANGED <<now, config, platformVars, balancerVars, raft, lastLeader, leaderChan,
                   isLeader, loops, requested, reported>>

\* NewDistributedApp refuses a configuration without raft.enabled
DistConfigs ==
    {[Config("advanced", "high", << >>, DefaultWeights, FALSE) EXCEPT !.raftEnabled = TRUE],
     [Config("threshold", "medium", << >>, DefaultWeights, FALSE) EXCEPT !.raftEnabled = TRUE]}

InitDist ==
    /\ InitBalancer
    /\ config \in DistConfigs
    /\ cluster = Recent
    /\ locked = {}
    /\ raft \in {r \in RaftStates : r.state # "Leader"}
    /\ lastLeader = ""
    /\ leaderChan = << >>
    /\ isLeader = FALSE
    /\ loops = 0
    /\ stopped = FALSE
    /\ requested = 0
    /\ reported = ""

NextDist ==
    \/ \E r \in RaftStates : RaftChange(r)
    \/ MonitorLeaderChanges
    \/ Start
    \/ MonitorLeadership
    \/ LoopTick
    \/ LoopExit
    \/ \E ord \in GroupOrders : RunBalancingCycle(ord)
    \/ AdvancedMigrate /\ UNCHANGED appVars
    \/ AdvancedFinish /\ UNCHANGED appVars
    \/ \E listingFails \in BOOLEAN : BalancerMigrate(listingFails) /\ UNCHANGED appVars
    \/ BalancerFinish /\ UNCHANGED appVars
    \/ \E load \in {"same", "calm"} : Tick(OneHour, load)
    \/ Shutdown

SpecDist == InitDist /\ [][NextDist]_vars

----------------------------------------------------------------------------
(* Both ways of running the manager: the standalone App and the             *)
(* DistributedApp, told apart by raft.enabled of the configuration.          *)

InitBoth == Init \/ InitDist

NextBoth ==
    \/ ~config.raftEnabled /\ Next
    \/ config.raftEnabled /\ NextDist

SpecBoth == InitBoth /\ [][NextBoth]_vars

\* the standalone app over the cluster with two loaded hosts, or the
\* distributed app; both receive SIGINT or SIGTERM at any moment
InitStop ==
    \/ /\ Init
       /\ cluster = Busy
       /\ config \in {Config("advanced", "high", << >>, DefaultWeights, FALSE),
                       Config("threshold", "medium", << >>, DefaultWeights, FALSE)}
    \/ InitDist

NextStop ==
    \/ ~config.raftEnabled /\ (Next \/ Shutdown \/ AppExit)
    \/ config.raftEnabled /\ NextDist

SpecStop == InitStop /\ [][NextStop]_vars

----------------------------------------------------------------------------
(* Properties *)

\* C1 (rule invariance, advanced balancer): every migration (v, src, dst) of
\* the plan of a cycle passes ValidatePlacement(v, dst) in a rule engine that
\* has ingested the tags of all VMs of that cycle's host listing.
C1_RuleInvariance ==
    IsAdvancedBalancer(config) =>
        \A i \in DOMAIN cycle.plan : \A ord \in GroupOrders :
            ValidatePlacement(ProcessVMs(NewEngine, allVMs(cycle.nodes)),
                              cycle.plan[i].VM, cycle.plan[i].ToNode, ord)

\* C2 (ignore respect, advanced balancer): no plan holds a migration of a VM
\* that carries a plb_ignore_ tag in the cycle's listing, and no migrate call
\* is issued for such a VM.
C2_IgnoreRespect ==
    IsAdvancedBalancer(config) =>
        LET ignored == {vm \in Range(allVMs(cycle.nodes)) :
                            \E j \in DOMAIN vm.tags : HasPrefix(TrimSpace(vm.tags[j]), PIgnore)}
        IN /\ \A i \in DOMAIN cycle.plan : cycle.plan[i].VM \notin ignored
           /\ \A k \in DOMAIN calls : \A vm \in ignored : calls[k].vm # vm.id

\* C3 (pin respect, advanced balancer): a migration of a VM that carries
\* plb_pin_ tags goes to one of the hosts those tags name; a VM pinned only
\* to the host it is on is therefore not migrated.
C3_PinRespect ==
    IsAdvancedBalancer(config) =>
        \A i \in DOMAIN cycle.plan :
            LET tags == cycle.plan[i].VM.tags
                pins == {TrimPrefix(TrimSpace(tags[j]), PPin) :
                            j \in {k \in DOMAIN tags : HasPrefix(TrimSpace(tags[k]), PPin)}}
            IN pins # {} => cycle.plan[i].ToNode \in pins

\* C4 (single actor, distributed mode): whatever the sequence of leadership
\* changes, every migrate call of a manager instance is issued while that
\* instance is the Raft leader.
C4_SingleActor == \A k \in DOMAIN calls : calls[k].asLeader

\* C5 (cooldown respect, advanced balancer): once a successful migration of
\* VM v is recorded at time t, no plan computed by a later cycle, forced or
\* not, before t + 1 hour holds a migration of v.  While a cycle executes,
\* migrationHistory is what earlier cycles recorded.
C5_CooldownRespect ==
    (IsAdvancedBalancer(config) /\ pc = "exec") =>
        \A i \in DOMAIN cycle.plan : \A h \in DOMAIN migrationHistory :
            migrationHistory[h].VMID = cycle.plan[i].VM.id
                => cycle.at >= migrationHistory[h].Timestamp + OneHour

\* a later cycle, less than an hour after VM v was moved to a host that is
\* now overloaded, plans another VM of that host while v is still there
C5_Witness ==
    /\ IsAdvancedBalancer(config)
    /\ pc = "exec"
    /\ \E h \in DOMAIN migrationHistory : \E i \in DOMAIN cycle.plan :
          /\ cycle.at < migrationHistory[h].Timestamp + OneHour
          /\ cycle.plan[i].FromNode = migrationHistory[h].ToNode
          /\ \E vm \in Range(allVMs(cycle.nodes)) :
                /\ vm.id = migrationHistory[h].VMID
                /\ vm.node = migrationHistory[h].ToNode
                /\ vm.status = "running"

\* C6 (per-VM cooldown, advanced balancer): no plan holds a VM whose
\* LastMoved in the cycle's listing is less than one hour before the cycle.
C6_LastMovedRespect ==
    IsAdvancedBalancer(config) =>
        \A i \in DOMAIN cycle.plan :
            cycle.plan[i].VM.lastMoved <= cycle.at - OneHour

\* a running VM moved less than an hour ago stays out of a plan that takes
\* another VM from the same overloaded host
C6_Witness ==
    /\ IsAdvancedBalancer(config)
    /\ \E vm \in Range(allVMs(cycle.nodes)) : \E i \in DOMAIN cycle.plan :
          /\ vm.status = "running"
          /\ vm.lastMoved > cycle.at - OneHour
          /\ cycle.plan[i].FromNode = vm.node

\* C7 (plan bound, advanced balancer): a plan holds at most 5 migrations and
\* a cycle issues at most 5 migrate calls.
C7_PlanBound ==
    IsAdvancedBalancer(config) =>
        Len(cycle.plan) <= MaxMigrations /\ Len(calls) <= MaxMigrations

\* a cycle over a host with more than 5 eligible VMs that has issued its 5 calls
C7_Witness ==
    /\ IsAdvancedBalancer(config)
    /\ Len(cycle.plan) = MaxMigrations
    /\ Len(calls) = MaxMigrations
    /\ \E n \in Range(cycle.nodes) :
          /\ Len(n.vms) > MaxMigrations
          /\ \A j \in DOMAIN n.vms :
                n.vms[j].status = "running" /\ n.vms[j].tags = << >> /\ n.vms[j].lastMoved = ZeroTime

\* C8 (monotone improvement, advanced planner): for each migration of a plan,
\* score(src) - score(dst) >= min_improvement of the active preset, with the
\* host scores computed at the start of the cycle.
C8_MonotoneImprovement ==
    IsAdvancedBalancer(config) =>
        \A i \in DOMAIN cycle.plan :
            LET src == scoreOf(cycle.scores, cycle.plan[i].FromNode)
                dst == scoreOf(cycle.scores, cycle.plan[i].ToNode)
            IN /\ ~src.nan
               /\ ~dst.nan
               /\ src.v - dst.v >= GetAggressivenessConfig(config).MinImprovement

C11_HistoryPruned ==
    (/\ IsAdvancedBalancer(config)
     /\ pc = "idle"
     /\ cycle.outcome \in {"done", "balanced", "cooldown"}
     /\ cycle.at = now)
    => \A h \in DOMAIN migrationHistory :
           migrationHistory[h].Timestamp >= now - OneDay

\* C12 (anti-affinity after the plan): if in the cycle's listing no host holds
\* two members of an anti-affinity group, then with every migration of the
\* cycle's plan applied no host holds two members of that group.
C12_AntiAffinityAfterPlan ==
    IsAdvancedBalancer(config) =>
        LET vms == Range(allVMs(cycle.nodes))
            member(vm, g) == \E k \in DOMAIN vm.tags :
                                /\ HasPrefix(TrimSpace(vm.tags[k]), PAntiAffinity)
                                /\ TrimSpace(vm.tags[k]).rest = g
            moves(vm) == {i \in DOMAIN cycle.plan : cycle.plan[i].VM.id = vm.id}
            dest(vm) == IF moves(vm) = {} THEN vm.node
                        ELSE cycle.plan[CHOOSE i \in moves(vm) : \A j \in moves(vm) : j <= i].ToNode
        IN \A g \in {"web", "db"} :
              (\A v1, v2 \in vms :
                   (member(v1, g) /\ member(v2, g) /\ v1.id # v2.id) => v1.node # v2.node)
              => (\A v1, v2 \in vms :
                   (member(v1, g) /\ member(v2, g) /\ v1.id # v2.id) => dest(v1) # dest(v2))

\* C13 (failures do not abort the plan, advanced balancer): every migration of
\* the plan gets exactly one migrate call, failed calls included, and the
\* result list holds exactly one entry per planned migration, marked success,
\* or failure with the provider's error text; the cycle returns its results
\* and no error.
C13_FailuresDoNotAbort ==
    (IsAdvancedBalancer(config) /\ cycle.outcome \in {"running", "done"}) =>
        /\ Len(calls) = Len(cycle.results)
        /\ Len(calls) <= Len(cycle.plan)
        /\ cycle.outcome = "done" => Len(calls) = Len(cycle.plan)
        /\ pc = "idle" <=> cycle.outcome = "done"
        /\ \A k \in DOMAIN calls :
              /\ calls[k].vm = cycle.plan[k].VM.id
              /\ calls[k].from = cycle.plan[k].FromNode
              /\ calls[k].to = cycle.plan[k].ToNode
              /\ cycle.results[k].VM = cycle.plan[k].VM
              /\ cycle.results[k].SourceNode = cycle.plan[k].FromNode
              /\ cycle.results[k].TargetNode = cycle.plan[k].ToNode
              /\ cycle.results[k].Success <=> cycle.results[k].ErrorMessage = ""
              /\ cycle.results[k].Success <=>
                    hostOf(cluster, calls[k].vm) = calls[k].to

\* a completed cycle whose plan of three migrations had a failed call
\* followed by a successful one
C13_Witness ==
    /\ IsAdvancedBalancer(config)
    /\ cycle.outcome = "done"
    /\ Len(cycle.plan) >= 3
    /\ \E k \in DOMAIN cycle.results :
          /\ k < Len(cycle.results)
          /\ ~cycle.results[k].Success
          /\ cycle.results[k].ErrorMessage # ""
          /\ cycle.results[k + 1].Success

\* C14 (history on success only, advanced balancer): the end of a cycle adds
\* one history entry for each migration whose migrate call succeeded and none
\* for a failed one, and no other step of the balancer changes the history.
C14_HistoryOnSuccessOnly ==
    [][IF IsAdvancedBalancer(config) /\ pc = "exec" /\ pc' = "idle"
       THEN /\ \A k \in DOMAIN cycle.results :
                  cycle.results[k].Success <=>
                     \E h \in DOMAIN migrationHistory' :
                        /\ migrationHistory'[h].VMID = cycle.results[k].VM.id
                        /\ migrationHistory'[h].FromNode = cycle.results[k].SourceNode
                        /\ migrationHistory'[h].ToNode = cycle.results[k].TargetNode
                        /\ migrationHistory'[h].Timestamp = cycle.results[k].Timestamp
            /\ Len(migrationHistory') =
                  Cardinality({h \in DOMAIN migrationHistory :
                                  migrationHistory[h].Timestamp > now - OneDay})
                  + Cardinality({k \in DOMAIN cycle.results : cycle.results[k].Success})
       ELSE migrationHistory' = migrationHistory]_vars

\* a completed cycle with a failed migration, which is not in the history,
\* and a successful one, which is
C14_Witness ==
    /\ IsAdvancedBalancer(config)
    /\ pc = "idle"
    /\ cycle.outcome = "done"
    /\ \E k \in DOMAIN cycle.results :
          /\ ~cycle.results[k].Success
          /\ ~\E h \in DOMAIN migrationHistory :
                 migrationHistory[h].VMID = cycle.results[k].VM.id
    /\ \E k \in DOMAIN cycle.results :
          /\ cycle.results[k].Success
          /\ \E h \in DOMAIN migrationHistory :
                 /\ migrationHistory[h].VMID = cycle.results[k].VM.id
                 /\ migrationHistory[h].Timestamp = cycle.results[k].Timestamp

\* C15 (sequential execution in plan order, advanced balancer): a step issues
\* at most one migrate call, only when every earlier call of the cycle has
\* returned and its result is recorded, and the call is for the next
\* migration in the order of the plan.
C15_SequentialInOrder ==
    [][(IsAdvancedBalancer(config) /\ calls' # calls /\ calls' # << >>)
       => /\ pc = "exec"
          /\ Len(cycle.results) = Len(calls)
          /\ Len(calls') = Len(calls) + 1
          /\ SubSeq(calls', 1, Len(calls)) = calls
          /\ Len(calls') <= Len(cycle.plan)
          /\ calls'[Len(calls')].vm = cycle.plan[Len(calls')].VM.id
          /\ calls'[Len(calls')].from = cycle.plan[Len(calls')].FromNode
          /\ calls'[Len(calls')].to = cycle.plan[Len(calls')].ToNode
          /\ Len(cycle'.results) = Len(calls')
          /\ cycle'.plan = cycle.plan]_vars

\* a completed cycle that issued the calls of a plan of three different VMs
C15_Witness ==
    /\ IsAdvancedBalancer(config)
    /\ cycle.outcome = "done"
    /\ Len(cycle.plan) >= 3
    /\ Len(calls) = Len(cycle.plan)
    /\ \A i, j \in DOMAIN cycle.plan : i # j => cycle.plan[i].VM.id # cycle.plan[j].VM.id
    /\ \A k \in DOMAIN calls : calls[k].vm = cycle.plan[k].VM.id

\* C16 (tick and leader flag, distributed mode): a tick takes a balancing loop
\* into a cycle only if the instance's leader flag is true; the balancer is
\* invoked only on behalf of such a loop, with the flag true and with
\* force = false; a cycle requested while the flag is false returns without
\* touching the balancer or the platform, and one requested while the flag is
\* true invokes the balancer.
C16_TickByLeaderFlag ==
    [][/\ requested' = requested + 1 =>
             isLeader /\ UNCHANGED <<balancerVars, platformVars>>
       /\ cycles' = cycles + 1 =>
             isLeader /\ requested >= 1 /\ requested' = requested - 1 /\ ~cycle'.force
       /\ (requested' = requested - 1 /\ ~isLeader) =>
             UNCHANGED <<balancerVars, platformVars>>
       /\ (requested' = requested - 1 /\ isLeader) =>
             cycles' = cycles + 1 /\ cycle'.at = now /\ cycle'.outcome # "none"]_vars

\* the instance has run a cycle from a tick as leader, has lost the flag
\* since, and a cycle requested by a tick before the loss is still to start
C16_Witness ==
    /\ cycles >= 1
    /\ cycle.outcome # "none"
    /\ ~cycle.force
    /\ pc = "idle"
    /\ ~isLeader
    /\ requested >= 1

\* C17 (cancellation between migrations): once leadership is lost or shutdown
\* is signalled while a cycle executes its plan, no further migrate call of
\* that plan is issued.
C17_CancelBetweenMigrations ==
    [][(pc = "exec" /\ (stopped \/ ~isLeader)) => calls' = calls]_vars

\* C18 (latest value wins): when a leadership notification is produced, the
\* value the control loop receives next from the leader channel is that
\* notification's, whether or not an older one was still unconsumed.
C18_LatestValueWins ==
    [][lastLeader' # lastLeader =>
          /\ leaderChan' # << >>
          /\ Head(leaderChan') = (raft.state = "Leader")]_vars

\* C19 (a notification for every transition): when the monitor sees that the
\* node has moved into or out of the leader state, a notification carrying
\* the new status is put on the leader channel.
C19_EveryTransitionNotified ==
    [][(/\ lastLeader' # lastLeader
        /\ (lastLeader = "self") # (raft.state = "Leader"))
       => /\ Len(leaderChan') = Len(leaderChan) + 1
          /\ leaderChan'[Len(leaderChan')] = (raft.state = "Leader")]_vars

\* C20 (one balancing task): across start-up and leadership changes an
\* instance has at most one balancing-loop task, so at most one task calls
\* the balancer's Run and mutates its state.
C20_SingleBalancingLoop == loops <= 1 /\ requested + inRun <= 1

\* C21 (a cycle's error does not end the control loop): when a cycle started
\* by a control loop returns an error (failed host listing, fewer than two
\* available hosts), the loop prints the error and stays in place for its next
\* tick, in the standalone app and in the distributed app; no step takes a
\* running loop away unless the context is cancelled.
C21_ErrorKeepsLoop ==
    [][/\ loops' < loops => stopped
       /\ (/\ cycles' = cycles + 1
           /\ ~cycle'.force
           /\ cycle'.outcome \in {"failed", "insufficient"})
          => /\ loops >= 1
             /\ loops' = loops
             /\ stopped' = stopped
             /\ pc' = "idle"
             /\ calls' = << >>
             /\ reported' = "Error during balancing cycle: balancing cycle failed: "
                                \o (IF cycle'.outcome = "failed" THEN "failed to get nodes"
                                    ELSE IF IsAdvancedBalancer(config)
                                    THEN "insufficient available nodes for balancing"
                                    ELSE "insufficient available nodes for balancing (need at least 2)")]_vars

\* a loop whose first cycle failed on the host listing has run its next cycle
C21_Witness ==
    /\ reported = "Error during balancing cycle: balancing cycle failed: failed to get nodes"
    /\ cycles = 2
    /\ ~cycle.force
    /\ cycle.outcome \in {"running", "done"}
    /\ loops >= 1

\* C22 (a cycle that cannot start): a cycle whose host listing fails, or whose
\* listing holds fewer than two hosts that are online and not in maintenance,
\* returns an error, issues no migrate call and leaves the last-run time and
\* the migration history as they were, threshold and advanced balancer alike.
C22_ErrorLeavesNoTrace ==
    [][(/\ cycles' = cycles + 1
        /\ \/ cycle'.outcome = "failed"
           \/ Cardinality({i \in DOMAIN cluster :
                  /\ cluster[i].status = "online"
                  /\ cluster[i].name \notin Range(config.maintenance)}) < 2)
       => /\ cycle'.outcome \in {"failed", "insufficient"}
          /\ pc' = "idle"
          /\ cycle'.plan = << >>
          /\ calls' = << >>
          /\ cluster' = cluster
          /\ lastRun' = lastRun
          /\ migrationHistory' = migrationHistory]_vars

C25_IngestIsRebuild ==
    [][(~IsAdvancedBalancer(config) /\ cycles' = cycles + 1
            /\ cycle'.outcome \notin {"failed", "insufficient"})
       => LET L == allVMs(cluster)
              tagged(vm, p) == {TrimSpace(vm.tags[k]).rest :
                                  k \in {j \in DOMAIN vm.tags : HasPrefix(TrimSpace(vm.tags[j]), p)}}
              ids(p) == {vm.id : vm \in {v \in Range(L) : tagged(v, p) # {}}}
              names(p) == UNION {tagged(vm, p) : vm \in Range(L)}
              members(p, g) == {vm \in Range(L) : g \in tagged(vm, p)}
          IN /\ engine' = ProcessVMs(NewEngine, L)
             /\ ProcessVMs(engine', L) = engine'
             /\ \A other \in {<< >>, allVMs(Tagged), allVMs(Recent)} :
                    ProcessVMs(ProcessVMs(NewEngine, other), L) = engine'
             /\ DOMAIN engine'.ignoredVMs = ids(PIgnore)
             /\ DOMAIN engine'.pinnedVMs = ids(PPin)
             /\ \A id \in ids(PPin) :
                    Range(engine'.pinnedVMs[id].Nodes) = tagged(vmOf(cluster, id), PPin)
             /\ DOMAIN engine'.affinityGroups = names(PAffinity)
             /\ \A g \in names(PAffinity) :
                    /\ Range(engine'.affinityGroups[g].VMs) = members(PAffinity, g)
                    /\ Len(engine'.affinityGroups[g].VMs) = Cardinality(members(PAffinity, g))
             /\ DOMAIN engine'.antiAffinityGroups = names(PAntiAffinity)
             /\ \A g \in names(PAntiAffinity) :
                    /\ Range(engine'.antiAffinityGroups[g].VMs) = members(PAntiAffinity, g)
                    /\ Len(engine'.antiAffinityGroups[g].VMs)
                          = Cardinality(members(PAntiAffinity, g))]_vars

\* the second ingestion of a threshold balancer, over a listing in which a
\* tagged VM has left the host the first ingestion saw it on
C25_Witness ==
    /\ ~IsAdvancedBalancer(config)
    /\ cycles = 2
    /\ cycle.outcome \notin {"none", "failed", "insufficient"}
    /\ engine = ProcessVMs(NewEngine, allVMs(cycle.nodes))
    /\ engine.affinityGroups # EmptyMap
    /\ engine.antiAffinityGroups # EmptyMap
    /\ engine.pinnedVMs # EmptyMap
    /\ engine.ignoredVMs # EmptyMap
    /\ \E vm \in Range(allVMs(cycle.nodes)) :
          vm.tags # << >> /\ vm.id \in 1..5 /\ vm.node # "a"

\* C26 (anti-affinity, every group): for a VM of the ingested list and a
\* target host, if any anti-affinity group that holds the VM has another
\* member on the target, ValidatePlacement fails, whatever the order in which
\* the groups are visited.
C26_AntiAffinityEveryGroup ==
    \A g \in DOMAIN engine.antiAffinityGroups :
        \A vm \in Range(engine.antiAffinityGroups[g].VMs) :
            \A other \in Range(engine.antiAffinityGroups[g].VMs) :
                other.id # vm.id
                    => \A ord \in GroupOrders : ~ValidatePlacement(engine, vm, other.node, ord)

\* C27 (affinity, every group): ValidatePlacement passes only if every
\* affinity group that holds the VM has another member on the target or no
\* other member on a different host; one group with a member elsewhere and
\* none on the target makes it fail, whatever the order in which the groups
\* are visited.
C27_AffinityEveryGroup ==
    \A g \in DOMAIN engine.affinityGroups :
        \A vm \in Range(engine.affinityGroups[g].VMs) :
            \A target \in {"a", "b", "c", "d"} :
                (/\ \E other \in Range(engine.affinityGroups[g].VMs) :
                        other.id # vm.id /\ other.node # target
                 /\ ~\E other \in Range(engine.affinityGroups[g].VMs) :
                        other.id # vm.id /\ other.node = target)
                    => \A ord \in GroupOrders : ~ValidatePlacement(engine, vm, target, ord)

\* C28 (progress, up to the per-cycle limit): in a non-forced cycle of the
\* advanced balancer outside the global cooldown, every running, untagged VM
\* that sits on an available host above a threshold, was not migrated within
\* the last hour, and for which another available host scores lower by at
\* least min_improvement, is in the plan, on its way to such a host, unless
\* the plan is already full with MaxMigrations migrations; for hosts a
\* (85/75/80 %) and b (30/25/20 %) with one VM on a the plan is exactly
\* (vm, a, b).
C28_ProgressUpToCap ==
    (/\ IsAdvancedBalancer(config)
     /\ cycle.outcome \in {"running", "balanced", "cooldown"}
     /\ ~cycle.force
     /\ cycle.at - lastRun >= (CASE config.aggressiveness = "low" -> 4 * OneHour
                                 [] config.aggressiveness = "medium" -> 2 * OneHour
                                 [] config.aggressiveness = "high" -> HalfHour))
    => LET avail == filterAvailableNodes(config, cycle.nodes)
           scores == calculateAdvancedNodeScores(config, capacityMetrics, migrationHistory,
                                                 avail, cycle.at)
           minImprovement == CASE config.aggressiveness = "low" -> 150000
                               [] config.aggressiveness = "medium" -> 100000
                               [] config.aggressiveness = "high" -> 50000
           better(src, dst) ==
               /\ dst # src
               /\ ~scoreOf(scores, src).nan
               /\ ~scoreOf(scores, dst).nan
               /\ scoreOf(scores, src).v - scoreOf(scores, dst).v >= minImprovement
           due(n, vm) ==
               /\ exceedsThreshold(config, n)
               /\ vm.status = "running"
               /\ vm.tags = << >>
               /\ vm.lastMoved <= cycle.at - OneHour
               /\ \A h \in DOMAIN migrationHistory :
                     migrationHistory[h].VMID = vm.id
                        => migrationHistory[h].Timestamp <= cycle.at - OneHour
               /\ \E t \in Range(avail) : better(n.name, t.name)
       IN /\ \A n \in Range(avail) : \A vm \in Range(n.vms) :
                due(n, vm)
                   => /\ cycle.outcome = "running"
                      /\ \/ Len(cycle.plan) = MaxMigrations
                         \/ \E i \in DOMAIN cycle.plan :
                               /\ cycle.plan[i].VM = vm
                               /\ cycle.plan[i].FromNode = n.name
                               /\ better(n.name, cycle.plan[i].ToNode)
          /\ (/\ Len(cycle.nodes) = 2
              /\ cycle.nodes[1] = [Seed[1] EXCEPT !.vms = cycle.nodes[1].vms]
              /\ cycle.nodes[2] = Seed[2]
              /\ Len(cycle.nodes[1].vms) = 1
              /\ cycle.nodes[1].vms[1].status = "running"
              /\ cycle.nodes[1].vms[1].tags = << >>
              /\ cycle.nodes[1].vms[1].lastMoved = ZeroTime
              /\ config.maintenance = << >>
              /\ config.weights = DefaultWeights)
             => cycle.plan = <<Migration(cycle.nodes[1].vms[1], "a", "b")>>

\* C29 (percentile sanity): the capacity metrics computed from a non-empty
\* series of samples satisfy p50 <= p90 <= p95 <= p99 <= max(samples) and
\* min(samples) <= min_p90, and each percentile is the sample at index
\* round((n-1)*p), counted from 0, of the samples in ascending order; for
\* 10, 20, ..., 100 they are p50 = 60, p90 = 90, p95 = 100, p99 = 100.
C29_PercentileSanity ==
    \A h \in DOMAIN capacityMetrics :
        LET s == histData[h].samples
            m == capacityMetrics[h]
            n == Len(s)
            \* the k-th smallest sample, k counted from 0
            kth(k) == CHOOSE v \in Range(s) :
                          /\ Cardinality({i \in DOMAIN s : s[i] < v}) <= k
                          /\ Cardinality({i \in DOMAIN s : s[i] <= v}) > k
            \* (n-1)*p rounded to the nearest integer, halves upwards; p in hundredths
            round(p) == CHOOSE r \in 0..(n - 1) :
                            /\ 2 * (n - 1) * p - 200 * r < 100
                            /\ 200 * r - 2 * (n - 1) * p <= 100
        IN (~histData[h].err /\ s # << >>)
           => /\ m.P50 <= m.P90 /\ m.P90 <= m.P95 /\ m.P95 <= m.P99
              /\ \E i \in DOMAIN s : \A j \in DOMAIN s : s[j] <= s[i] /\ m.P99 <= s[i]
              /\ \E i \in DOMAIN s : \A j \in DOMAIN s : s[i] <= s[j] /\ s[i] <= m.MinP90
              /\ m.P50 = kth(round(50))
              /\ m.P90 = kth(round(90))
              /\ m.P95 = kth(round(95))
              /\ m.P99 = kth(round(99))
              /\ s = <<10, 20, 30, 40, 50, 60, 70, 80, 90, 100>>
                    => m.P50 = 60 /\ m.P90 = 90 /\ m.P95 = 100 /\ m.P99 = 100

\* C29: a cycle has computed the percentiles of the series 10, 20, ..., 100
C29_Witness ==
    /\ "a" \in DOMAIN capacityMetrics
    /\ histData["a"].samples = <<10, 20, 30, 40, 50, 60, 70, 80, 90, 100>>
    /\ capacityMetrics["a"].P50 = 60
    /\ capacityMetrics["a"].P90 = 90
    /\ capacityMetrics["a"].P95 = 100
    /\ capacityMetrics["a"].P99 = 100

\* C30 (history fetch failure): a cycle of the advanced balancer with capacity
\* planning whose listing succeeds and holds two available hosts or more is
\* never aborted by a failed fetch of a host's historical samples: it
\* returns no error, it goes on to scoring and planning whenever it is forced
\* or the trigger and the cooldown gate let it pass, every available host
\* whose fetch failed gets capacity metrics computed from the one-sample
\* series of its current CPU percentage, and that host is among the scored
\* hosts.
C30_HistoryFailureDegrades ==
    [][(/\ cycles' = cycles + 1
        /\ IsAdvancedBalancer(config)
        /\ config.capacityEnabled
        /\ cycle'.outcome # "failed"
        /\ Cardinality({i \in DOMAIN cluster :
                           /\ cluster[i].status = "online"
                           /\ cluster[i].name \notin Range(config.maintenance)}) >= 2)
       => LET cooldown == CASE config.aggressiveness = "low" -> 4 * OneHour
                            [] config.aggressiveness = "medium" -> 2 * OneHour
                            [] config.aggressiveness = "high" -> HalfHour
              over == \E i \in DOMAIN cluster :
                         /\ cluster[i].status = "online"
                         /\ cluster[i].name \notin Range(config.maintenance)
                         /\ \/ cluster[i].cpu > 10 * config.thresholds.cpu
                            \/ cluster[i].mem > 10 * config.thresholds.mem
                            \/ cluster[i].sto > 10 * config.thresholds.sto
              proceeds == cycle'.force \/ (over /\ now - lastRun >= cooldown)
          IN /\ cycle'.outcome \in {"running", "balanced", "cooldown"}
             /\ proceeds <=> cycle'.outcome = "running"
             /\ \A i \in DOMAIN cluster :
                   (/\ cluster[i].status = "online"
                    /\ cluster[i].name \notin Range(config.maintenance)
                    /\ histData[cluster[i].name].err)
                   => /\ cluster[i].name \in DOMAIN capacityMetrics'
                      /\ capacityMetrics'[cluster[i].name] =
                            [P50 |-> cluster[i].cpu, P90 |-> cluster[i].cpu,
                             P95 |-> cluster[i].cpu, P99 |-> cluster[i].cpu,
                             MinP90 |-> cluster[i].cpu, MaxP90 |-> cluster[i].cpu,
                             Mean |-> cluster[i].cpu]
                      /\ cycle'.outcome = "running"
                            => \E k \in DOMAIN cycle'.scores :
                                  cycle'.scores[k].Node = cluster[i].name]_vars

\* C30: the fetch of the history of host b has failed, its metrics are its
\* current CPU usage, and the cycle has planned a migration from or to b
C30_Witness ==
    /\ IsAdvancedBalancer(config)
    /\ config.capacityEnabled
    /\ histData["b"].err
    /\ cycle.outcome = "running"
    /\ \E i \in DOMAIN cycle.nodes :
          /\ cycle.nodes[i].name = "b"
          /\ cycle.nodes[i].cpu > 0
          /\ "b" \in DOMAIN capacityMetrics
          /\ capacityMetrics["b"].P90 = cycle.nodes[i].cpu
    /\ \E k \in DOMAIN cycle.scores : cycle.scores[k].Node = "b"
    /\ \E j \in DOMAIN cycle.plan :
          cycle.plan[j].FromNode = "b" \/ cycle.plan[j].ToNode = "b"

\* C31 (rule respect, threshold balancer): every migration of a plan of the
\* threshold balancer is for a VM without a plb_ignore_ tag; if the VM
\* carries plb_pin_ tags the destination is one of the hosts they name; for
\* every anti-affinity group of the VM no other member of the group is on the
\* destination; for every affinity group of the VM another member is on the
\* destination or no other member is on a different host.  The groups are
\* read off the tags of all VMs of the cycle's listing.
C31_ThresholdRuleRespect ==
    ~IsAdvancedBalancer(config) =>
        \A i \in DOMAIN cycle.plan :
            LET vm == cycle.plan[i].VM
                dst == cycle.plan[i].ToNode
                listed == Range(allVMs(cycle.nodes))
                names(v, prefix) ==
                    {TrimPrefix(TrimSpace(v.tags[j]), prefix) :
                        j \in {k \in DOMAIN v.tags : HasPrefix(TrimSpace(v.tags[k]), prefix)}}
                others(g, prefix) == {o \in listed : o.id # vm.id /\ g \in names(o, prefix)}
            IN /\ names(vm, PIgnore) = {}
               /\ names(vm, PPin) # {} => dst \in names(vm, PPin)
               /\ \A g \in names(vm, PAntiAffinity) :
                     \A o \in others(g, PAntiAffinity) : o.node # dst
               /\ \A g \in names(vm, PAffinity) :
                     \/ \E o \in others(g, PAffinity) : o.node = dst
                     \/ \A o \in others(g, PAffinity) : o.node = dst

\* C32 (score order): the host scores the advanced planner works with are in
\* ascending order of score, and of two hosts with equal scores the one whose
\* name comes first in lexicographic order comes first.
C32_ScoreOrder ==
    (IsAdvancedBalancer(config) /\ cycle.outcome \in {"running", "done"}) =>
        LET rank(name) == CHOOSE k \in 1..4 : <<"a", "b", "c", "d">>[k] = name
        IN \A i, j \in DOMAIN cycle.scores :
              (i < j /\ ~cycle.scores[i].Score.nan /\ ~cycle.scores[j].Score.nan)
                 => /\ cycle.scores[i].Score.v <= cycle.scores[j].Score.v
                    /\ cycle.scores[i].Score.v = cycle.scores[j].Score.v
                          => rank(cycle.scores[i].Node) < rank(cycle.scores[j].Node)

\* C33 (best target): the destination of every migration of a plan of the
\* advanced balancer is a valid target of the VM, that is an available host
\* other than the source that passes ValidatePlacement for the rules read off
\* the tags of the cycle's listing, and no valid target has a lower score; a
\* VM without a valid target is in no plan.
C33_LowestScoringValidTarget ==
    (IsAdvancedBalancer(config) /\ cycle.outcome \in {"running", "done"}) =>
        \A i \in DOMAIN cycle.plan :
            LET m == cycle.plan[i]
                rules == ProcessVMs(NewEngine, allVMs(cycle.nodes))
                hosts == {n.name : n \in Range(filterAvailableNodes(config, cycle.nodes))}
                                \ {m.FromNode}
                passes == {h \in hosts : \E ord \in GroupOrders :
                                            ValidatePlacement(rules, m.VM, h, ord)}
                surely == {h \in hosts : \A ord \in GroupOrders :
                                            ValidatePlacement(rules, m.VM, h, ord)}
            IN /\ m.ToNode \in passes
               /\ \A h \in surely :
                     ~Less(scoreOf(cycle.scores, h), scoreOf(cycle.scores, m.ToNode))

\* C34 (shutdown): once the shutdown signal has arrived or the context is
\* cancelled, no control loop starts a new balancing cycle: the standalone
\* loop does not call Run(false) again, and no balancing loop of the
\* distributed app enters runBalancingCycle again.
C34_NoCycleAfterShutdown ==
    [][stopped =>
         /\ ~config.raftEnabled => ~(cycles' = cycles + 1 /\ ~cycle'.force)
         /\ config.raftEnabled => requested' <= requested]_vars

\* C35 (trigger and planner agree): in a non-forced cycle of the advanced
\* balancer that has passed the trigger, every available host whose CPU,
\* memory or storage usage is above its threshold, by however little, is a
\* source host of the planner: its running, untagged, never migrated VMs for
\* which another available host scores lower by at least min_improvement are
\* in the plan, unless the plan is full.
C35_TriggerPlannerAgree ==
    (/\ IsAdvancedBalancer(config)
     /\ cycle.outcome = "running"
     /\ ~cycle.force)
    => LET avail == filterAvailableNodes(config, cycle.nodes)
           minImprovement == CASE config.aggressiveness = "low" -> 150000
                               [] config.aggressiveness = "medium" -> 100000
                               [] config.aggressiveness = "high" -> 50000
           above(n) == \/ n.cpu > 10 * config.thresholds.cpu
                       \/ n.mem > 10 * config.thresholds.mem
                       \/ n.sto > 10 * config.thresholds.sto
           better(src, dst) ==
               /\ dst # src
               /\ ~scoreOf(cycle.scores, src).nan
               /\ ~scoreOf(cycle.scores, dst).nan
               /\ scoreOf(cycle.scores, src).v - scoreOf(cycle.scores, dst).v >= minImprovement
       IN \A n \in Range(avail) : \A vm \in Range(n.vms) :
             (/\ above(n)
              /\ vm.status = "running"
              /\ vm.tags = << >>
              /\ vm.lastMoved = ZeroTime
              /\ \A h \in DOMAIN migrationHistory : migrationHistory[h].VMID # vm.id
              /\ \E t \in Range(avail) : better(n.name, t.name))
             => \/ Len(cycle.plan) = MaxMigrations
                \/ \E i \in DOMAIN cycle.plan :
                      cycle.plan[i].VM = vm /\ cycle.plan[i].FromNode = n.name

\* C36 (force bypasses the gates only): in a forced cycle of the advanced
\* balancer every migration of the plan has a source host above a threshold,
\* a running VM that was not migrated within the last hour (by the listing
\* and by the migration history), a destination that passes ValidatePlacement
\* for the rules read off the tags of the listing, and a score gain of at
\* least min_improvement; the plan holds at most 5 migrations.
C36_ForceKeepsPlannerChecks ==
    (/\ IsAdvancedBalancer(config)
     /\ cycle.outcome = "running"
     /\ cycle.force)
    => LET minImprovement == CASE config.aggressiveness = "low" -> 150000
                               [] config.aggressiveness = "medium" -> 100000
                               [] config.aggressiveness = "high" -> 50000
           rules == ProcessVMs(NewEngine, allVMs(cycle.nodes))
       IN /\ Len(cycle.plan) <= 5
          /\ \A i \in DOMAIN cycle.plan :
                LET m == cycle.plan[i]
                IN /\ \E k \in DOMAIN cycle.nodes :
                         /\ cycle.nodes[k].name = m.FromNode
                         /\ \/ cycle.nodes[k].cpu > 10 * config.thresholds.cpu
                            \/ cycle.nodes[k].mem > 10 * config.thresholds.mem
                            \/ cycle.nodes[k].sto > 10 * config.thresholds.sto
                   /\ m.VM.status = "running"
                   /\ m.VM.lastMoved = ZeroTime \/ m.VM.lastMoved <= cycle.at - OneHour
                   /\ \A h \in DOMAIN migrationHistory :
                         migrationHistory[h].VMID = m.VM.id
                            => migrationHistory[h].Timestamp <= cycle.at - OneHour
                   /\ \E ord \in GroupOrders : ValidatePlacement(rules, m.VM, m.ToNode, ord)
                   /\ ~scoreOf(cycle.scores, m.FromNode).nan
                   /\ ~scoreOf(cycle.scores, m.ToNode).nan
                   /\ scoreOf(cycle.scores, m.FromNode).v - scoreOf(cycle.scores, m.ToNode).v
                         >= minImprovement

C38_OneMigrationPerVM ==
    LET vs == allVMs(cycle.nodes)
    IN (/\ IsAdvancedBalancer(config)
        /\ cycle.outcome \in {"running", "done"}
        /\ \A i, j \in DOMAIN vs : vs[i].id = vs[j].id => i = j)
       => /\ \A i, j \in DOMAIN cycle.plan :
                cycle.plan[i].VM.id = cycle.plan[j].VM.id => i = j
          /\ \A i, j \in DOMAIN calls : calls[i].vm = calls[j].vm => i = j

\* a cycle over a listing of several VMs has carried out a plan of at least
\* two migrations, fewer than the limit
C38_Witness ==
    /\ IsAdvancedBalancer(config)
    /\ cycle.outcome = "done"
    /\ Len(allVMs(cycle.nodes)) >= 3
    /\ Len(cycle.plan) >= 2
    /\ Len(cycle.plan) < MaxMigrations
    /\ Len(calls) = Len(cycle.plan)

\* C39 (well-formed migrations): in every migration of a plan of the advanced
\* balancer the source is the host that lists the VM in the cycle's listing,
\* the destination is another host, and the destination is a host of the same
\* listing that is online and not in maintenance.
C39_WellFormedMigrations ==
    (/\ IsAdvancedBalancer(config)
     /\ cycle.outcome \in {"running", "done"})
    => \A i \in DOMAIN cycle.plan :
          LET m == cycle.plan[i]
          IN /\ \E k \in DOMAIN cycle.nodes :
                   /\ cycle.nodes[k].name = m.FromNode
                   /\ \E j \in DOMAIN cycle.nodes[k].vms : cycle.nodes[k].vms[j] = m.VM
             /\ m.ToNode # m.FromNode
             /\ \E k \in DOMAIN cycle.nodes :
                   /\ cycle.nodes[k].name = m.ToNode
                   /\ cycle.nodes[k].status = "online"
                   /\ m.ToNode \notin Range(config.maintenance)

\* a plan over a listing with a host that is offline or in maintenance and
\* less used on every resource than the destination the plan chose
C39_Witness ==
    /\ IsAdvancedBalancer(config)
    /\ cycle.outcome \in {"running", "done"}
    /\ cycle.plan # << >>
    /\ \E k, d \in DOMAIN cycle.nodes :
          /\ cycle.nodes[d].name = cycle.plan[1].ToNode
          /\ \/ cycle.nodes[k].status # "online"
             \/ cycle.nodes[k].name \in Range(config.maintenance)
          /\ cycle.nodes[k].cpu < cycle.nodes[d].cpu
          /\ cycle.nodes[k].mem < cycle.nodes[d].mem
          /\ cycle.nodes[k].sto < cycle.nodes[d].sto

\* the distributed app with its two monitor tasks scheduled again and again:
\* monitorLeaderChanges polls on a ticker of its own, monitorLeadership
\* blocks in a receive from the leader channel
SpecLive ==
    /\ SpecDist
    /\ WF_vars(MonitorLeaderChanges)
    /\ WF_vars(MonitorLeadership)

\* C40 (the leader flag follows the raft status): if from some moment on the
\* raft status of the running instance no longer changes (and no notification
\* waits for a balancing loop beyond MaxLoops), then from some moment on the
\* leader flag of the control loop equals that status.
C40_FlagFollowsStatus ==
    \A r \in RaftStates :
       <>[](/\ raft = r
            /\ ~stopped
            /\ loops >= 1
            /\ leaderChan # << >> => loops < MaxLoops)
       => <>[](isLeader = (r.state = "Leader"))

====
